---- MODULE Spec2Model ----
(***************************************************************************)
(* Model of the nanoleaf-mcp core: the Device Registry (DeviceManager,     *)
(* src/unnamed/part_000) and one Device Connection (NanoleafClient,        *)
(* src/unnamed/part_001) talking to one physical device.                   *)
(*                                                                         *)
(* Strings are drawn from a small universe that holds case variants, so    *)
(* that toLowerCase is a real conversion.  An omitted optional string      *)
(* argument (undefined) and the empty string are both falsy in the code    *)
(* (alias || ip, !deviceParam, info.name &&), and the code only ever tests *)
(* their truthiness: both are written "" here.                             *)
(***************************************************************************)
EXTENDS Integers, Sequences, FiniteSets, TLC

VARIABLES
    devices,      \* DeviceManager.devices: the Map, as its entries in insertion order
    heap,         \* the RegisteredDevice objects still referenced, by object identity
    nextObj,      \* identity of the next object register creates
    rf,           \* the refreshNames call in flight: position of its for-of/await
    last,         \* the latest registry call: its name, argument and what it returned
    rr,           \* history: progress of a register(a); remove(a); resolve(a) sequence
    upgraded,     \* history: the objects whose alias refreshNames has rewritten
    hw,           \* the physical device behind one NanoleafClient: what GET / reports
    cl,           \* that NanoleafClient's private fields
    sockets,      \* the UDP sockets dgram.createSocket has made for it: "open" or "closed"
    calls,        \* the calls in flight on it: operation, position, locals, requests issued
    fx,           \* the latest call that ran without an await (stopStreaming, a codec or
                  \* colour function): its name, its argument, what it returned or threw
    adds,         \* the add_device / POST /devices requests: position and answer of each
    rest          \* the fire-and-forget REST requests: the answer each was given, and
                  \* whether fire's catch has logged an error of the command it dispatched

regVars == <<devices, heap, nextObj, rf, last, rr, upgraded>>
cliVars == <<hw, cl, sockets, calls>>
feVars == <<adds, rest>>
vars == <<regVars, cliVars, fx, feVars>>

(***************************************************************************)
(* Bounds                                                                  *)
(***************************************************************************)
\* number of register calls (RegisteredDevice objects created) in a run
MaxRegistrations == 2
\* number of calls that may overlap on one NanoleafClient
MaxCalls == 2
\* number of UDP sockets one NanoleafClient creates in a run
MaxSockets == 3
\* number of entries of a Map given to the packet builders
MaxPanels == 2
\* number of add requests that may wait for their device at the same time
MaxAdds == 2

(***************************************************************************)
(* Strings                                                                 *)
(***************************************************************************)
IPs == {"10.0.0.1", "Leaf.local"}
AliasArgs == {"", "k", "K", "10.0.0.1"}
\* (name, model) pairs a device may report; the name is whatever its owner typed: it
\* may be empty, and it may be the very host name the device is reached under
HardwareInfos ==
    {[name |-> "", model |-> "NL22"], [name |-> "K", model |-> "NL42"],
     [name |-> "Leaf.local", model |-> "NL22"]}
Tokens == {"tok"}
\* identifiers a caller may pass to remove / resolve
Identifiers == {"k", "K", "10.0.0.1", "Leaf.local", "leaf.local"}

\* String.prototype.toLowerCase on the universe above
Lower(s) ==
    CASE s = "K" -> "k"
      [] s = "Leaf.local" -> "leaf.local"
      [] OTHER -> s

\* JavaScript truthiness of a string, and a || b on strings
Truthy(s) == s # ""
OrElse(a, b) == IF Truthy(a) THEN a ELSE b

\* a field that was never assigned (RegisteredDevice.name?, .model?)
Undefined == "<undefined>"

(***************************************************************************)
(* Map<string, RegisteredDevice>: entries in insertion order.  Deleting    *)
(* an entry closes the gap; a live iterator that is already past the       *)
(* deleted entry moves back by one, which is what the ECMAScript Map       *)
(* iterator observes.                                                      *)
(***************************************************************************)
MapIndex(m, key) ==
    IF \E i \in 1..Len(m) : m[i].key = key
    THEN CHOOSE i \in 1..Len(m) : m[i].key = key
    ELSE 0

MapHas(m, key) == MapIndex(m, key) # 0

\* the object stored under key, 0 for undefined
MapGet(m, key) == IF MapHas(m, key) THEN m[MapIndex(m, key)].obj ELSE 0

MapSet(m, key, obj) ==
    IF MapHas(m, key)
    THEN [m EXCEPT ![MapIndex(m, key)].obj = obj]
    ELSE Append(m, [key |-> key, obj |-> obj])

MapDelete(m, key) ==
    IF MapHas(m, key)
    THEN LET j == MapIndex(m, key)
         IN  [i \in 1..(Len(m) - 1) |-> IF i < j THEN m[i] ELSE m[i + 1]]
    ELSE m

\* next position of an iterator that stood at idx before MapDelete(m, key)
IterAfterDelete(m, key, idx) ==
    IF MapHas(m, key) /\ MapIndex(m, key) < idx THEN idx - 1 ELSE idx

MapValues(m) == {m[i].obj : i \in 1..Len(m)}

\* The objects a Map and a refreshNames iteration still reference; every other
\* RegisteredDevice is garbage and is dropped from the heap.
Reachable(m, r) == MapValues(m) \cup (IF r.pc = "await" THEN {r.cur} ELSE {})
Collect(h, m, r) == [o \in Reachable(m, r) |-> h[o]]
HeapPut(h, o, dev) == [x \in DOMAIN h \cup {o} |-> IF x = o THEN dev ELSE h[x]]

\* [...this.devices.values()].map((d) => d.alias)
AliasList(m, h) == [i \in 1..Len(m) |-> h[m[i].obj].alias]

(***************************************************************************)
(* DeviceManager                                                           *)
(***************************************************************************)
Result(kind, obj, aliases) == [kind |-> kind, obj |-> obj, aliases |-> aliases]

\* a lookup that forgets toLowerCase
FindByAlias_CaseSensitive(m, param) == MapGet(m, param)

\* resolve, "Match by alias": this.devices.get(deviceParam.toLowerCase())
FindByAlias(m, param) == MapGet(m, Lower(param))

\* resolve, "Fall back to IP match": first device in Map order with device.ip === deviceParam
FindByIp(m, h, param) ==
    IF \E i \in 1..Len(m) : h[m[i].obj].ip = param
    THEN LET first == CHOOSE i \in 1..Len(m) :
                 /\ h[m[i].obj].ip = param
                 /\ \A j \in 1..(i - 1) : h[m[j].obj].ip # param
         IN  m[first].obj
    ELSE 0

\* a default that returns the first device whenever there is one
ResolveDefault_FirstWins(m, h) ==
    IF Len(m) >= 1
    THEN [kind |-> "ok", obj |-> m[1].obj, aliases |-> <<>>]
    ELSE [kind |-> "AmbiguousSelection", obj |-> 0, aliases |-> AliasList(m, h)]

\* resolve without deviceParam: the only device, or the "Multiple devices" error
ResolveDefault(m, h) ==
    IF Len(m) = 1
    THEN Result("ok", m[1].obj, <<>>)
    ELSE Result("AmbiguousSelection", 0, AliasList(m, h))

\* a lookup that tries the IP before the alias
ResolveNamed_IpFirst(m, h, param) ==
    IF FindByIp(m, h, param) # 0
    THEN Result("ok", FindByIp(m, h, param), <<>>)
    ELSE IF FindByAlias(m, param) # 0
         THEN Result("ok", FindByAlias(m, param), <<>>)
         ELSE Result("NotFound", 0, AliasList(m, h))

\* resolve with deviceParam: alias match, else IP match, else the "not found" error
ResolveNamed(m, h, param) ==
    IF FindByAlias(m, param) # 0
    THEN Result("ok", FindByAlias(m, param), <<>>)
    ELSE IF FindByIp(m, h, param) # 0
         THEN Result("ok", FindByIp(m, h, param), <<>>)
         ELSE Result("NotFound", 0, AliasList(m, h))

\* a resolve without the size === 0 check
resolve_NoSizeCheck(m, h, param) ==
    IF ~Truthy(param) THEN ResolveDefault(m, h) ELSE ResolveNamed(m, h, param)

resolve(m, h, param) ==
    IF Len(m) = 0
    THEN Result("NotConfigured", 0, <<>>)
    ELSE IF ~Truthy(param)
         THEN ResolveDefault(m, h)
         ELSE ResolveNamed(m, h, param)

\* a key that keeps the alias's case
RegisterKey_KeepCase(ip, alias) == OrElse(alias, ip)

\* register: the key the new entry is stored under
RegisterKey(ip, alias) == Lower(OrElse(alias, ip))

\* register: the RegisteredDevice object created (each owns a new NanoleafClient,
\* identified with the object)
NewDevice(ip, authToken, alias) ==
    [alias |-> OrElse(alias, ip), ip |-> ip, authToken |-> authToken,
     name |-> Undefined, model |-> Undefined]

\* a removal that keeps the alias's case
RemoveKey_KeepCase(alias) == alias

\* remove: the key deleted
RemoveKey(alias) == Lower(alias)

NoInfo == [ok |-> FALSE, name |-> "", model |-> ""]
NoResult == Result("none", 0, <<>>)
RfIdle == [pc |-> "idle", idx |-> 0, cur |-> 0]
NoRR == [stage |-> 0, alias |-> ""]

\* the record kept of the latest call
Call(op, arg, res, dev, info) ==
    [op |-> op, arg |-> arg, res |-> res, dev |-> dev, info |-> info]

\* what GET / of a registered device's client may answer during refreshNames
FetchOutcomes ==
    {NoInfo} \cup {[ok |-> TRUE, name |-> i.name, model |-> i.model] : i \in HardwareInfos}

\* an upgrade that does not look whether the name is taken
UpgradeWanted_NoHasCheck(m, h, d, info) ==
    /\ h[d].alias = h[d].ip
    /\ Truthy(info.name)

\* refreshNames: the guard of the alias upgrade, evaluated after the fetch
UpgradeWanted(m, h, d, info) ==
    /\ h[d].alias = h[d].ip
    /\ Truthy(info.name)
    /\ ~MapHas(m, Lower(info.name))

\* refreshNames: the loop's next iteration from iterator position idx, or its end
RefreshAdvance(m, idx) ==
    IF idx <= Len(m)
    THEN [pc |-> "await", idx |-> idx + 1, cur |-> m[idx].obj]
    ELSE [pc |-> "done", idx |-> 0, cur |-> 0]

\* a refreshNames without the try/catch: the rejection ends the call
RefreshOnFailure_Rethrow(m, idx) == [pc |-> "failed", idx |-> 0, cur |-> 0]

\* refreshNames: the catch block; the loop goes on with the next device
RefreshOnFailure(m, idx) == RefreshAdvance(m, idx)

RegisterCall(ip, authToken, alias) ==
    /\ nextObj <= MaxRegistrations
    /\ devices' = MapSet(devices, RegisterKey(ip, alias), nextObj)
    /\ heap' = Collect(HeapPut(heap, nextObj, NewDevice(ip, authToken, alias)), devices', rf)
    /\ nextObj' = nextObj + 1
    /\ last' = Call("register", "", NoResult, nextObj, NoInfo)
    /\ rr' = IF Truthy(alias) THEN [stage |-> 1, alias |-> alias] ELSE NoRR
    /\ UNCHANGED <<rf, upgraded>>
    /\ UNCHANGED <<cliVars, fx, feVars>>

RemoveCall(alias) ==
    /\ devices' = MapDelete(devices, RemoveKey(alias))
    /\ rf' = IF rf.pc = "await"
             THEN [rf EXCEPT !.idx = IterAfterDelete(devices, RemoveKey(alias), rf.idx)]
             ELSE rf
    /\ heap' = Collect(heap, devices', rf')
    /\ last' = Call("remove", "", NoResult, 0, NoInfo)
    /\ rr' = IF rr.stage = 1 /\ rr.alias = alias
             THEN [stage |-> 2, alias |-> alias]
             ELSE NoRR
    /\ UNCHANGED <<nextObj, upgraded>>
    /\ UNCHANGED <<cliVars, fx, feVars>>

ResolveCall(param) ==
    /\ last' = Call("resolve", param, resolve(devices, heap, param), 0, NoInfo)
    /\ rr' = IF rr.stage = 2 /\ rr.alias = param
             THEN [stage |-> 3, alias |-> param]
             ELSE NoRR
    /\ UNCHANGED <<devices, heap, nextObj, rf, upgraded>>
    /\ UNCHANGED <<cliVars, fx, feVars>>

\* refreshNames up to its first await: the iterator yields the first device
RefreshNamesStart ==
    /\ rf.pc \in {"idle", "done"}
    /\ rf' = RefreshAdvance(devices, 1)
    /\ last' = Call("refreshNames", "", NoResult, 0, NoInfo)
    /\ rr' = NoRR
    /\ UNCHANGED <<devices, heap, nextObj, upgraded>>
    /\ UNCHANGED <<cliVars, fx, feVars>>

\* refreshNames from the settled getInfo of device rf.cur to the next await or the end
RefreshNamesResume(info) ==
    /\ rf.pc = "await"
    /\ LET d == rf.cur
           oldKey == Lower(heap[d].ip)
           newKey == Lower(info.name)
       IN  IF ~info.ok
           THEN /\ rf' = RefreshOnFailure(devices, rf.idx)
                /\ devices' = devices
                /\ heap' = Collect(heap, devices', rf')
           ELSE IF UpgradeWanted(devices, heap, d, info)
                THEN /\ devices' = MapSet(MapDelete(devices, oldKey), newKey, d)
                     /\ rf' = RefreshAdvance(devices',
                                  IterAfterDelete(devices, oldKey, rf.idx))
                     /\ heap' = Collect([heap EXCEPT ![d].name = info.name,
                                                     ![d].model = info.model,
                                                     ![d].alias = info.name],
                                        devices', rf')
                ELSE /\ devices' = devices
                     /\ rf' = RefreshAdvance(devices, rf.idx)
                     /\ heap' = Collect([heap EXCEPT ![d].name = info.name,
                                                     ![d].model = info.model],
                                        devices', rf')
    /\ upgraded' = IF info.ok /\ UpgradeWanted(devices, heap, rf.cur, info)
                   THEN upgraded \cup {rf.cur}
                   ELSE upgraded
    /\ last' = Call("refreshStep", "", NoResult, rf.cur, info)
    /\ rr' = NoRR
    /\ UNCHANGED nextObj
    /\ UNCHANGED <<cliVars, fx, feVars>>

(***************************************************************************)
(* Adding a device at run time: the add_device tool and POST /devices      *)
(***************************************************************************)
Adders == 1..MaxAdds
\* an add request: where it stands and, once the device answered, the alias it chose
Adding(pc, ip, authToken, alias, finalAlias) ==
    [pc |-> pc, ip |-> ip, authToken |-> authToken, alias |-> alias,
     finalAlias |-> finalAlias]
NoAdd == Adding("idle", "", "", "", "")
\* an add request takes the lowest slot that is not waiting for a device
AddFree(a) ==
    /\ adds[a].pc # "fetch"
    /\ \A b \in Adders : b < a => adds[b].pc = "fetch"
\* the objects the add requests in flight may still create
AddsInSight == (nextObj - 1) + Cardinality({a \in Adders : adds[a].pc = "fetch"})

\* who asks, and with which address and token: the tool's schema makes both strings
\* of a real device, the REST body may leave either out
AddInputs ==
    ({"tool"} \X IPs \X Tokens) \cup ({"rest"} \X (IPs \cup {""}) \X (Tokens \cup {""}))

\* const finalAlias = alias || info.name || ip
FinalAlias(ip, alias, info) == OrElse(alias, OrElse(info.name, ip))

\* an add request that registers without asking whether the alias is taken
AliasTaken_NoCheck(m, finalAlias) == FALSE

\* deviceManager.has(finalAlias)
AliasTaken(m, finalAlias) == MapHas(m, Lower(finalAlias))

\* the request up to its await: POST /devices answers 400 when ip or authToken is
\* missing; otherwise a client of its own asks the device for its info
AddDeviceCall(a, via, ip, authToken, alias) ==
    /\ AddFree(a)
    /\ AddsInSight < MaxRegistrations
    /\ adds' = [adds EXCEPT ![a] =
                   IF via = "rest" /\ (~Truthy(ip) \/ ~Truthy(authToken))
                   THEN Adding("invalid", ip, authToken, alias, "")
                   ELSE Adding("fetch", ip, authToken, alias, "")]
    /\ UNCHANGED <<regVars, cliVars, fx, rest>>

\* the request from the settled getInfo to its answer: has, register and the two
\* assignments run without an await between them
AddDeviceResume(a, info) ==
    /\ adds[a].pc = "fetch"
    /\ LET r == adds[a]
           finalAlias == FinalAlias(r.ip, r.alias, info)
       IN  IF ~info.ok
           THEN /\ adds' = [adds EXCEPT ![a].pc = "unreachable"]
                /\ UNCHANGED <<devices, heap, nextObj, last, rr>>
           ELSE IF AliasTaken(devices, finalAlias)
                THEN /\ adds' = [adds EXCEPT ![a].pc = "conflict",
                                             ![a].finalAlias = finalAlias]
                     /\ UNCHANGED <<devices, heap, nextObj, last, rr>>
                ELSE /\ adds' = [adds EXCEPT ![a].pc = "registered",
                                             ![a].finalAlias = finalAlias]
                     /\ devices' = MapSet(devices, RegisterKey(r.ip, finalAlias), nextObj)
                     /\ heap' = Collect(HeapPut(heap, nextObj,
                                     [NewDevice(r.ip, r.authToken, finalAlias)
                                         EXCEPT !.name = info.name,
                                                !.model = info.model]),
                                     devices', rf)
                     /\ nextObj' = nextObj + 1
                     /\ last' = Call("register", "", NoResult, nextObj, NoInfo)
                     /\ rr' = IF Truthy(finalAlias)
                              THEN [stage |-> 1, alias |-> finalAlias] ELSE NoRR
    /\ UNCHANGED <<rf, upgraded>>
    /\ UNCHANGED <<cliVars, fx, rest>>

(***************************************************************************)
(* Registry claims                                                         *)
(***************************************************************************)
Entries == 1..Len(devices)
AliasOf(i) == heap[devices[i].obj].alias
IpOf(i) == heap[devices[i].obj].ip
SameIgnoringCase(a, b) == Lower(a) = Lower(b)
Elems(seq) == {seq[i] : i \in 1..Len(seq)}

\* C3 (as stated): after register(ip, token, alias) followed by remove(alias),
\* resolve(alias) returns a NotFound error, whatever the registry held before.
C3_RemovedIsNotFound ==
    rr.stage = 3 => last.res.kind = "NotFound"

\* C3 (amended): after register(ip, token, alias) followed by remove(alias),
\* resolve(alias) returns NotConfigured when the registry is left empty, an entry
\* whose IP equals alias when one is registered, and NotFound otherwise.
C3_RemovedIsNotResolvedByAlias ==
    rr.stage = 3 =>
        IF Len(devices) = 0
        THEN last.res.kind = "NotConfigured"
        ELSE IF \E i \in Entries : IpOf(i) = rr.alias
             THEN /\ last.res.kind = "ok"
                  /\ \E i \in Entries : devices[i].obj = last.res.obj /\ IpOf(i) = rr.alias
             ELSE last.res.kind = "NotFound"

C3_Witness ==
    /\ rr.stage = 3
    /\ last.op = "resolve"
    /\ last.res.kind = "NotFound"

\* C4: in every reachable registry state every entry is stored under the key
\* lowercase(its alias), and no two entries have aliases equal ignoring case.
C4_AliasesUnique ==
    /\ \A i \in Entries : devices[i].key = Lower(AliasOf(i))
    /\ \A i, j \in Entries : i # j => ~SameIgnoringCase(AliasOf(i), AliasOf(j))

C4_Witness ==
    /\ Len(devices) = 2
    /\ \E i \in Entries : devices[i].key # AliasOf(i)
    /\ last.op = "refreshStep"

\* C5: resolve with an identifier on a non-empty registry returns the entry whose
\* alias equals the identifier ignoring case if there is one (even when another
\* entry's IP equals the identifier); otherwise an entry whose IP equals the
\* identifier exactly; otherwise a NotFound error naming every registered alias.
C5_ResolveByIdentifier ==
    (last.op = "resolve" /\ Truthy(last.arg) /\ Len(devices) > 0) =>
        IF \E i \in Entries : SameIgnoringCase(AliasOf(i), last.arg)
        THEN /\ last.res.kind = "ok"
             /\ \A i \in Entries :
                    SameIgnoringCase(AliasOf(i), last.arg) => last.res.obj = devices[i].obj
        ELSE IF \E i \in Entries : IpOf(i) = last.arg
             THEN /\ last.res.kind = "ok"
                  /\ \E i \in Entries : devices[i].obj = last.res.obj /\ IpOf(i) = last.arg
             ELSE /\ last.res.kind = "NotFound"
                  /\ Elems(last.res.aliases) = {AliasOf(i) : i \in Entries}

C5_Witness ==
    /\ last.op = "resolve"
    /\ \E i, j \in Entries :
          /\ i # j
          /\ SameIgnoringCase(AliasOf(i), last.arg)
          /\ IpOf(j) = last.arg
          /\ last.res.obj = devices[i].obj

\* C6: resolve with no identifier returns the only device when exactly one is
\* registered, and an AmbiguousSelection error listing every registered alias
\* when more than one is registered.
C6_ResolveDefault ==
    (last.op = "resolve" /\ ~Truthy(last.arg)) =>
        /\ Len(devices) = 1 => (last.res.kind = "ok" /\ last.res.obj = devices[1].obj)
        /\ Len(devices) > 1 =>
              /\ last.res.kind = "AmbiguousSelection"
              /\ Elems(last.res.aliases) = {AliasOf(i) : i \in Entries}

C6_Witness ==
    /\ last.op = "resolve"
    /\ ~Truthy(last.arg)
    /\ Len(devices) = 2
    /\ last.res.kind = "AmbiguousSelection"
    /\ Len(last.res.aliases) = 2

\* C7: with zero devices registered, resolve returns NotConfigured with and
\* without an identifier, and the registry stays empty.
C7_EmptyIsNotConfigured ==
    [][(Len(devices) = 0 /\ last'.op = "resolve") =>
          (last'.res.kind = "NotConfigured" /\ Len(devices') = 0)]_vars

C7_Witness ==
    /\ last.op = "resolve"
    /\ Truthy(last.arg)
    /\ Len(devices) = 0
    /\ nextObj > 1
    /\ last.res.kind = "NotConfigured"

\* C8: for as long as an entry stays stored under its key, resolve called with any
\* case variation of its alias returns the Device Connection object of that entry.
C8_CaseVariantsResolveSameConnection ==
    \A i \in Entries : \A p \in Identifiers :
        Lower(p) = devices[i].key =>
            /\ resolve(devices, heap, p).kind = "ok"
            /\ resolve(devices, heap, p).obj = devices[i].obj

C8_Witness ==
    /\ last.op = "resolve"
    /\ last.res.kind = "ok"
    /\ \E i \in Entries :
          /\ devices[i].obj = last.res.obj
          /\ AliasOf(i) = "k"
          /\ last.arg = "K"
          /\ IpOf(i) # last.arg

\* the step in which refreshNames processes the settled fetch of device rf.cur
RefreshStepTaken == rf.pc = "await" /\ last'.op = "refreshStep"

\* the upgrade condition of the claim, read in the state before the step
C9_Condition ==
    /\ heap[rf.cur].alias = heap[rf.cur].ip
    /\ last'.info.ok
    /\ Truthy(last'.info.name)
    /\ ~\E i \in Entries : devices[i].key = Lower(last'.info.name)

\* what a re-key leaves behind: the same object, under the name's key, alias rewritten
C9_Rekeyed ==
    /\ MapGet(devices', Lower(last'.info.name)) = rf.cur
    /\ heap'[rf.cur].alias = last'.info.name
    /\ heap'[rf.cur].ip = heap[rf.cur].ip
    /\ \A i \in 1..Len(devices') :
          devices'[i].obj = rf.cur => devices'[i].key = Lower(last'.info.name)
    /\ resolve(devices', heap', last'.info.name) = Result("ok", rf.cur, <<>>)

C9_Untouched ==
    /\ devices' = devices
    /\ rf.cur \in DOMAIN heap' => heap'[rf.cur].alias = heap[rf.cur].alias

C10_FetchFailureSwallowed ==
    [][(RefreshStepTaken /\ ~last'.info.ok) =>
          /\ devices' = devices
          /\ rf.cur \in DOMAIN heap' => heap'[rf.cur] = heap[rf.cur]
          /\ rf'.pc # "failed"
          /\ IF rf.idx <= Len(devices)
             THEN rf'.pc = "await" /\ rf'.cur = devices[rf.idx].obj
             ELSE rf'.pc = "done"]_vars

C10_Witness ==
    /\ last.op = "refreshStep"
    /\ ~last.info.ok
    /\ rf.pc = "await"
    /\ rf.cur # last.dev
    /\ last.dev \in DOMAIN heap
    /\ heap[last.dev].name = Undefined

C22_UpgradeToAnotherNameIsFinal ==
    [][(RefreshStepTaken /\ rf.cur \in upgraded /\ heap[rf.cur].alias # heap[rf.cur].ip) =>
          /\ devices' = devices
          /\ rf.cur \in DOMAIN heap' => heap'[rf.cur].alias = heap[rf.cur].alias]_vars

\* an upgraded device is processed again while its hardware reports another name
C22_Witness ==
    /\ last.op = "refreshStep"
    /\ last.info.ok
    /\ last.dev \in upgraded
    /\ last.dev \in DOMAIN heap
    /\ Truthy(last.info.name)
    /\ heap[last.dev].alias # last.info.name

(***************************************************************************)
(* Color Model (NanoleafClient.hsbToRgb)                                   *)
(*                                                                         *)
(* For integer hue in 0..360 and saturation, brightness in 0..100 the      *)
(* terms v, p, q, t are the rationals below and Math.floor(h * 6) is       *)
(* hue \div 60.  Math.round(x * 255) is the rational rounded half up,      *)
(* except where the exact product ends in .5 and the IEEE doubles of the   *)
(* code land just below it: those inputs are listed in the TieBelow sets.  *)
(***************************************************************************)
\* <<saturation, brightness>> at which v * (1 - s) * 255 is a tie that the doubles miss
TieBelowP ==
    {<<80, 50>>, <<90, 100>>}

\* <<hue, saturation, brightness>> at which v * (1 - f * s) * 255 is such a tie (sectors 1, 3, 5)
TieBelowQ ==
    {<<65, 75, 96>>, <<70, 25, 80>>, <<70, 60, 100>>, <<70, 80, 50>>, <<70, 100, 12>>,
     <<70, 100, 52>>, <<70, 100, 60>>, <<70, 100, 92>>, <<70, 100, 100>>, <<72, 50, 100>>,
     <<74, 100, 100>>, <<75, 25, 96>>, <<85, 15, 96>>, <<94, 100, 100>>, <<95, 40, 100>>,
     <<95, 100, 8>>, <<95, 100, 24>>, <<95, 100, 40>>, <<95, 100, 56>>, <<95, 100, 72>>,
     <<95, 100, 88>>, <<96, 100, 25>>, <<96, 100, 75>>, <<100, 25, 12>>, <<100, 25, 52>>,
     <<100, 25, 60>>, <<100, 25, 92>>, <<100, 25, 100>>, <<100, 35, 100>>, <<100, 50, 15>>,
     <<100, 50, 35>>, <<100, 80, 50>>, <<100, 85, 100>>, <<100, 90, 25>>, <<100, 90, 75>>,
     <<100, 95, 100>>, <<100, 100, 10>>, <<100, 100, 30>>, <<100, 100, 50>>, <<100, 100, 70>>,
     <<100, 100, 90>>, <<105, 80, 25>>, <<105, 80, 75>>, <<110, 20, 12>>, <<110, 20, 52>>,
     <<110, 20, 60>>, <<110, 20, 92>>, <<110, 20, 100>>, <<110, 28, 100>>, <<110, 40, 5>>,
     <<110, 40, 15>>, <<110, 40, 25>>, <<110, 40, 35>>, <<110, 40, 45>>, <<110, 40, 65>>,
     <<110, 40, 75>>, <<110, 40, 85>>, <<110, 40, 95>>, <<110, 48, 50>>, <<110, 50, 40>>,
     <<110, 55, 80>>, <<110, 60, 20>>, <<110, 60, 60>>, <<110, 60, 100>>, <<110, 64, 50>>,
     <<110, 68, 100>>, <<110, 70, 24>>, <<110, 72, 25>>, <<110, 72, 75>>, <<110, 75, 80>>,
     <<110, 76, 100>>, <<110, 80, 10>>, <<110, 80, 30>>, <<110, 80, 50>>, <<110, 80, 70>>,
     <<110, 80, 90>>, <<110, 84, 100>>, <<110, 85, 80>>, <<110, 90, 40>>, <<110, 92, 100>>,
     <<110, 95, 16>>, <<110, 95, 48>>, <<110, 95, 80>>, <<110, 96, 50>>, <<110, 100, 20>>,
     <<110, 100, 60>>, <<110, 100, 100>>, <<112, 100, 25>>, <<112, 100, 75>>, <<116, 25, 100>>,
     <<116, 75, 100>>, <<116, 100, 50>>, <<118, 100, 100>>, <<186, 100, 100>>, <<188, 25, 100>>,
     <<188, 50, 25>>, <<188, 50, 75>>, <<188, 75, 100>>, <<188, 100, 50>>, <<190, 20, 100>>,
     <<190, 25, 80>>, <<190, 40, 25>>, <<190, 60, 100>>, <<190, 75, 80>>, <<190, 80, 50>>,
     <<190, 100, 4>>, <<190, 100, 12>>, <<190, 100, 20>>, <<190, 100, 28>>, <<190, 100, 36>>,
     <<190, 100, 44>>, <<190, 100, 52>>, <<190, 100, 60>>, <<190, 100, 68>>, <<190, 100, 76>>,
     <<190, 100, 84>>, <<190, 100, 92>>, <<190, 100, 100>>, <<192, 50, 100>>, <<194, 100, 100>>,
     <<195, 25, 96>>, <<198, 100, 100>>, <<200, 30, 100>>, <<200, 40, 50>>, <<200, 50, 12>>,
     <<200, 50, 52>>, <<200, 50, 60>>, <<200, 50, 92>>, <<200, 50, 100>>, <<200, 70, 100>>,
     <<200, 80, 50>>, <<200, 90, 100>>, <<200, 100, 5>>, <<200, 100, 15>>, <<200, 100, 25>>,
     <<200, 100, 35>>, <<200, 100, 45>>, <<200, 100, 65>>, <<200, 100, 75>>, <<200, 100, 85>>,
     <<200, 100, 95>>, <<205, 15, 96>>, <<220, 15, 100>>, <<220, 20, 50>>, <<220, 25, 12>>,
     <<220, 25, 52>>, <<220, 25, 60>>, <<220, 25, 92>>, <<220, 25, 100>>, <<220, 35, 100>>,
     <<220, 40, 50>>, <<220, 45, 100>>, <<220, 50, 5>>, <<220, 50, 15>>, <<220, 50, 25>>,
     <<220, 50, 35>>, <<220, 50, 45>>, <<220, 50, 65>>, <<220, 50, 75>>, <<220, 50, 85>>,
     <<220, 50, 95>>, <<220, 55, 100>>, <<220, 60, 50>>, <<220, 65, 100>>, <<220, 75, 20>>,
     <<220, 75, 60>>, <<220, 75, 100>>, <<220, 80, 50>>, <<220, 85, 100>>, <<220, 90, 25>>,
     <<220, 90, 75>>, <<220, 95, 100>>, <<220, 100, 10>>, <<220, 100, 30>>, <<220, 100, 50>>,
     <<220, 100, 70>>, <<220, 100, 90>>, <<222, 100, 100>>, <<225, 80, 25>>, <<225, 80, 75>>,
     <<232, 50, 100>>, <<232, 100, 25>>, <<232, 100, 75>>, <<234, 100, 100>>, <<235, 40, 100>>,
     <<235, 50, 80>>, <<235, 75, 32>>, <<235, 75, 96>>, <<235, 100, 40>>, <<236, 25, 100>>,
     <<236, 75, 100>>, <<236, 100, 50>>, <<238, 100, 100>>, <<310, 20, 100>>, <<310, 25, 80>>,
     <<310, 40, 25>>, <<310, 60, 100>>, <<310, 75, 80>>, <<310, 80, 50>>, <<310, 100, 4>>,
     <<310, 100, 12>>, <<310, 100, 20>>, <<310, 100, 28>>, <<310, 100, 36>>, <<310, 100, 44>>,
     <<310, 100, 52>>, <<310, 100, 60>>, <<310, 100, 68>>, <<310, 100, 76>>, <<310, 100, 84>>,
     <<310, 100, 92>>, <<310, 100, 100>>, <<312, 50, 100>>, <<314, 100, 100>>, <<315, 25, 96>>,
     <<322, 100, 100>>, <<324, 25, 100>>, <<324, 75, 100>>, <<324, 100, 50>>, <<325, 10, 80>>,
     <<325, 15, 96>>, <<325, 16, 25>>, <<325, 24, 100>>, <<325, 32, 50>>, <<325, 40, 12>>,
     <<325, 40, 52>>, <<325, 40, 60>>, <<325, 40, 92>>, <<325, 40, 100>>, <<325, 56, 100>>,
     <<325, 60, 40>>, <<325, 64, 50>>, <<325, 65, 32>>, <<325, 65, 96>>, <<325, 70, 80>>,
     <<325, 72, 100>>, <<325, 80, 5>>, <<325, 80, 15>>, <<325, 80, 25>>, <<325, 80, 35>>,
     <<325, 80, 45>>, <<325, 80, 55>>, <<325, 80, 65>>, <<325, 80, 75>>, <<325, 80, 85>>,
     <<325, 80, 95>>, <<325, 88, 100>>, <<325, 90, 16>>, <<325, 90, 48>>, <<325, 90, 80>>,
     <<325, 96, 50>>, <<325, 100, 40>>, <<326, 100, 100>>, <<328, 50, 100>>, <<335, 40, 100>>,
     <<335, 50, 80>>, <<335, 100, 8>>, <<335, 100, 24>>, <<335, 100, 40>>, <<335, 100, 56>>,
     <<335, 100, 72>>, <<335, 100, 88>>, <<345, 80, 25>>, <<345, 80, 75>>, <<355, 40, 100>>,
     <<355, 50, 80>>, <<355, 75, 32>>, <<355, 75, 96>>, <<355, 100, 40>>, <<356, 25, 100>>,
     <<356, 75, 100>>, <<356, 100, 50>>, <<358, 100, 100>>}

\* <<hue, saturation, brightness>> at which v * (1 - (1 - f) * s) * 255 is such a tie (sectors 0, 2, 4)
TieBelowT ==
    {<<0, 80, 50>>, <<0, 90, 100>>, <<2, 100, 100>>, <<4, 25, 100>>, <<4, 100, 50>>,
     <<6, 100, 100>>, <<8, 100, 25>>, <<8, 100, 75>>, <<10, 20, 12>>, <<10, 20, 52>>,
     <<10, 20, 60>>, <<10, 20, 92>>, <<10, 20, 100>>, <<10, 28, 100>>, <<10, 40, 15>>,
     <<10, 40, 35>>, <<10, 50, 40>>, <<10, 68, 100>>, <<10, 70, 24>>, <<10, 76, 100>>,
     <<10, 80, 10>>, <<10, 80, 30>>, <<10, 80, 50>>, <<10, 80, 70>>, <<10, 80, 90>>,
     <<10, 85, 80>>, <<10, 92, 100>>, <<10, 96, 50>>, <<10, 100, 20>>, <<10, 100, 60>>,
     <<10, 100, 100>>, <<12, 75, 25>>, <<12, 75, 75>>, <<12, 100, 50>>, <<15, 80, 25>>,
     <<15, 80, 75>>, <<20, 25, 12>>, <<20, 25, 52>>, <<20, 25, 60>>, <<20, 25, 92>>,
     <<20, 25, 100>>, <<20, 35, 100>>, <<20, 50, 15>>, <<20, 50, 35>>, <<20, 80, 50>>,
     <<20, 85, 100>>, <<20, 90, 25>>, <<20, 90, 75>>, <<20, 95, 100>>, <<20, 100, 10>>,
     <<20, 100, 30>>, <<20, 100, 50>>, <<20, 100, 70>>, <<20, 100, 90>>, <<32, 50, 100>>,
     <<35, 15, 96>>, <<35, 56, 100>>, <<40, 50, 12>>, <<40, 50, 52>>, <<40, 50, 60>>,
     <<40, 50, 92>>, <<40, 50, 100>>, <<40, 70, 100>>, <<40, 100, 15>>, <<40, 100, 35>>,
     <<45, 25, 96>>, <<46, 100, 100>>, <<52, 75, 100>>, <<52, 100, 50>>, <<54, 100, 100>>,
     <<55, 75, 96>>, <<120, 80, 50>>, <<120, 90, 100>>, <<122, 100, 100>>, <<124, 25, 100>>,
     <<124, 75, 100>>, <<124, 100, 50>>, <<125, 40, 100>>, <<125, 50, 80>>, <<125, 75, 32>>,
     <<125, 75, 96>>, <<125, 100, 40>>, <<126, 100, 100>>, <<128, 100, 25>>, <<128, 100, 75>>,
     <<130, 20, 12>>, <<130, 20, 52>>, <<130, 20, 60>>, <<130, 20, 92>>, <<130, 20, 100>>,
     <<130, 28, 100>>, <<130, 40, 5>>, <<130, 40, 15>>, <<130, 40, 25>>, <<130, 40, 35>>,
     <<130, 40, 45>>, <<130, 40, 65>>, <<130, 40, 75>>, <<130, 40, 85>>, <<130, 40, 95>>,
     <<130, 48, 50>>, <<130, 50, 40>>, <<130, 55, 80>>, <<130, 60, 20>>, <<130, 60, 60>>,
     <<130, 60, 100>>, <<130, 64, 50>>, <<130, 68, 100>>, <<130, 70, 24>>, <<130, 72, 25>>,
     <<130, 72, 75>>, <<130, 75, 80>>, <<130, 76, 100>>, <<130, 80, 10>>, <<130, 80, 30>>,
     <<130, 80, 50>>, <<130, 80, 70>>, <<130, 80, 90>>, <<130, 84, 100>>, <<130, 85, 80>>,
     <<130, 90, 40>>, <<130, 92, 100>>, <<130, 95, 16>>, <<130, 95, 48>>, <<130, 95, 80>>,
     <<130, 96, 50>>, <<130, 100, 20>>, <<130, 100, 60>>, <<130, 100, 100>>, <<132, 50, 50>>,
     <<132, 75, 25>>, <<132, 75, 75>>, <<132, 100, 50>>, <<135, 80, 25>>, <<135, 80, 75>>,
     <<152, 50, 100>>, <<154, 100, 100>>, <<155, 15, 96>>, <<160, 30, 100>>, <<160, 40, 50>>,
     <<160, 50, 12>>, <<160, 50, 52>>, <<160, 50, 60>>, <<160, 50, 92>>, <<160, 50, 100>>,
     <<160, 70, 100>>, <<160, 80, 50>>, <<160, 90, 100>>, <<160, 100, 5>>, <<160, 100, 15>>,
     <<160, 100, 25>>, <<160, 100, 35>>, <<160, 100, 45>>, <<160, 100, 65>>, <<160, 100, 75>>,
     <<160, 100, 85>>, <<160, 100, 95>>, <<165, 25, 96>>, <<166, 100, 100>>, <<168, 50, 100>>,
     <<170, 20, 100>>, <<170, 25, 80>>, <<170, 40, 25>>, <<170, 60, 100>>, <<170, 75, 80>>,
     <<170, 80, 50>>, <<170, 100, 4>>, <<170, 100, 12>>, <<170, 100, 20>>, <<170, 100, 28>>,
     <<170, 100, 36>>, <<170, 100, 44>>, <<170, 100, 52>>, <<170, 100, 60>>, <<170, 100, 68>>,
     <<170, 100, 76>>, <<170, 100, 84>>, <<170, 100, 92>>, <<170, 100, 100>>, <<174, 100, 100>>,
     <<175, 40, 100>>, <<175, 50, 80>>, <<175, 75, 96>>, <<175, 80, 25>>, <<176, 50, 100>>,
     <<176, 100, 25>>, <<176, 100, 75>>, <<240, 80, 50>>, <<240, 90, 100>>, <<242, 100, 100>>,
     <<244, 25, 100>>, <<244, 75, 100>>, <<244, 100, 50>>, <<246, 100, 100>>, <<248, 50, 100>>,
     <<248, 100, 25>>, <<248, 100, 75>>, <<250, 5, 80>>, <<250, 8, 25>>, <<250, 12, 100>>,
     <<250, 16, 50>>, <<250, 20, 12>>, <<250, 20, 52>>, <<250, 20, 60>>, <<250, 20, 92>>,
     <<250, 20, 100>>, <<250, 28, 100>>, <<250, 30, 40>>, <<250, 32, 50>>, <<250, 35, 80>>,
     <<250, 36, 100>>, <<250, 40, 5>>, <<250, 40, 15>>, <<250, 40, 25>>, <<250, 40, 35>>,
     <<250, 40, 45>>, <<250, 40, 55>>, <<250, 40, 65>>, <<250, 40, 75>>, <<250, 40, 85>>,
     <<250, 40, 95>>, <<250, 44, 100>>, <<250, 45, 16>>, <<250, 45, 48>>, <<250, 45, 80>>,
     <<250, 48, 50>>, <<250, 50, 40>>, <<250, 52, 100>>, <<250, 55, 80>>, <<250, 60, 20>>,
     <<250, 60, 60>>, <<250, 60, 100>>, <<250, 64, 50>>, <<250, 65, 80>>, <<250, 68, 100>>,
     <<250, 70, 8>>, <<250, 70, 24>>, <<250, 70, 40>>, <<250, 70, 56>>, <<250, 70, 72>>,
     <<250, 70, 88>>, <<250, 72, 25>>, <<250, 72, 75>>, <<250, 75, 80>>, <<250, 76, 100>>,
     <<250, 80, 10>>, <<250, 80, 30>>, <<250, 80, 50>>, <<250, 80, 70>>, <<250, 80, 90>>,
     <<250, 84, 100>>, <<250, 85, 80>>, <<250, 90, 40>>, <<250, 92, 100>>, <<250, 95, 16>>,
     <<250, 95, 48>>, <<250, 95, 80>>, <<250, 96, 50>>, <<250, 100, 20>>, <<250, 100, 60>>,
     <<250, 100, 100>>, <<252, 50, 50>>, <<252, 75, 25>>, <<252, 75, 75>>, <<252, 100, 50>>,
     <<255, 80, 25>>, <<255, 80, 75>>, <<258, 100, 100>>, <<260, 15, 100>>, <<260, 20, 50>>,
     <<260, 25, 12>>, <<260, 25, 52>>, <<260, 25, 60>>, <<260, 25, 92>>, <<260, 25, 100>>,
     <<260, 35, 100>>, <<260, 40, 50>>, <<260, 45, 100>>, <<260, 50, 5>>, <<260, 50, 15>>,
     <<260, 50, 25>>, <<260, 50, 35>>, <<260, 50, 45>>, <<260, 50, 65>>, <<260, 50, 75>>,
     <<260, 50, 85>>, <<260, 50, 95>>, <<260, 55, 100>>, <<260, 60, 50>>, <<260, 65, 100>>,
     <<260, 75, 20>>, <<260, 75, 60>>, <<260, 75, 100>>, <<260, 80, 50>>, <<260, 85, 100>>,
     <<260, 90, 25>>, <<260, 90, 75>>, <<260, 95, 100>>, <<260, 100, 10>>, <<260, 100, 30>>,
     <<260, 100, 50>>, <<260, 100, 70>>, <<260, 100, 90>>, <<262, 100, 100>>, <<264, 50, 100>>,
     <<264, 100, 25>>, <<264, 100, 75>>, <<272, 50, 100>>, <<274, 100, 100>>, <<275, 10, 80>>,
     <<275, 15, 96>>, <<275, 16, 25>>, <<275, 24, 100>>, <<275, 32, 50>>, <<275, 40, 12>>,
     <<275, 40, 52>>, <<275, 40, 60>>, <<275, 40, 92>>, <<275, 40, 100>>, <<275, 56, 100>>,
     <<275, 60, 40>>, <<275, 64, 50>>, <<275, 65, 32>>, <<275, 65, 96>>, <<275, 70, 80>>,
     <<275, 72, 100>>, <<275, 80, 5>>, <<275, 80, 15>>, <<275, 80, 25>>, <<275, 80, 35>>,
     <<275, 80, 45>>, <<275, 80, 55>>, <<275, 80, 65>>, <<275, 80, 75>>, <<275, 80, 85>>,
     <<275, 80, 95>>, <<275, 88, 100>>, <<275, 90, 16>>, <<275, 90, 48>>, <<275, 90, 80>>,
     <<275, 96, 50>>, <<275, 100, 40>>, <<285, 25, 96>>, <<286, 100, 100>>, <<295, 40, 100>>,
     <<295, 50, 80>>, <<295, 75, 32>>, <<295, 75, 96>>, <<295, 80, 25>>, <<295, 80, 75>>,
     <<295, 100, 40>>, <<360, 80, 50>>, <<360, 90, 100>>}

\* Math.round(255 * n / d), one lower where the doubles fall below the tie
Round255(n, d, below) == ((510 * n + d) \div (2 * d)) - (IF below THEN 1 ELSE 0)

hsbToRgb(color) ==
    LET hue == color.hue
        sat == color.saturation
        bri == color.brightness
        i == hue \div 60
        fr == hue - 60 * i
        v == Round255(bri, 100, FALSE)
        p == Round255(bri * (100 - sat), 10000, <<sat, bri>> \in TieBelowP)
        q == Round255(bri * (6000 - fr * sat), 600000, <<hue, sat, bri>> \in TieBelowQ)
        t == Round255(bri * (6000 - (60 - fr) * sat), 600000, <<hue, sat, bri>> \in TieBelowT)
    IN  CASE i % 6 = 0 -> [r |-> v, g |-> t, b |-> p]
          [] i % 6 = 1 -> [r |-> q, g |-> v, b |-> p]
          [] i % 6 = 2 -> [r |-> p, g |-> v, b |-> t]
          [] i % 6 = 3 -> [r |-> p, g |-> q, b |-> v]
          [] i % 6 = 4 -> [r |-> t, g |-> p, b |-> v]
          [] OTHER -> [r |-> v, g |-> p, b |-> q]

(***************************************************************************)
(* Color Model (NanoleafClient.rgbToHsb)                                   *)
(*                                                                         *)
(* With integer channels the hue is the rational 60 (g - b) / delta plus   *)
(* the sector offset, the saturation 100 delta / max and the brightness    *)
(* 100 max / 255.  Math.round is the rational rounded half up, except at   *)
(* the exact ties the doubles of the code fall below; the brightness has   *)
(* no tie.  The tie sets below are those of the channel values the colour  *)
(* specification draws from.                                               *)
(***************************************************************************)
ColorChannels == {0, 1, 2, 51, 108, 119, 120, 127, 128, 200, 254, 255}

\* <<r, g, b>> of the channels above at which the hue is a tie that the doubles miss
RgbHueTieBelow ==
    {<<119, 127, 120>>, <<120, 127, 128>>, <<127, 120, 119>>, <<127, 128, 120>>}

\* <<min, max>> of the channels above at which the saturation is such a tie
RgbSatTieBelow ==
    {<<51, 120>>, <<51, 200>>}

\* Math.round(n / d) for n >= 0, one lower where the doubles fall below the tie
RoundHalfUp(n, d, below) == ((2 * n + d) \div (2 * d)) - (IF below THEN 1 ELSE 0)

\* rgbToHsb, were the offsets of the green and blue sectors exchanged
rgbToHsb_SectorsSwapped(color) ==
    LET r == color.r
        g == color.g
        b == color.b
        max == IF r >= g /\ r >= b THEN r ELSE IF g >= b THEN g ELSE b
        min == IF r <= g /\ r <= b THEN r ELSE IF g <= b THEN g ELSE b
        delta == max - min
        hueN == IF delta = 0 THEN 0
                ELSE IF max = r THEN (IF g >= b THEN 60 * (g - b) ELSE 60 * (g - b) + 360 * delta)
                ELSE IF max = g THEN 60 * (b - r) + 240 * delta
                ELSE 60 * (r - g) + 120 * delta
    IN  [hue |-> RoundHalfUp(hueN, IF delta = 0 THEN 1 ELSE delta, FALSE),
         saturation |-> IF max = 0 THEN 0 ELSE RoundHalfUp(100 * delta, max, FALSE),
         brightness |-> RoundHalfUp(100 * max, 255, FALSE)]

rgbToHsb(color) ==
    LET r == color.r
        g == color.g
        b == color.b
        max == IF r >= g /\ r >= b THEN r ELSE IF g >= b THEN g ELSE b
        min == IF r <= g /\ r <= b THEN r ELSE IF g <= b THEN g ELSE b
        delta == max - min
        \* hue * delta after "hue *= 60; if (hue < 0) hue += 360"
        hueN == IF delta = 0 THEN 0
                ELSE IF max = r THEN (IF g >= b THEN 60 * (g - b) ELSE 60 * (g - b) + 360 * delta)
                ELSE IF max = g THEN 60 * (b - r) + 120 * delta
                ELSE 60 * (r - g) + 240 * delta
    IN  [hue |-> RoundHalfUp(hueN, IF delta = 0 THEN 1 ELSE delta, <<r, g, b>> \in RgbHueTieBelow),
         saturation |-> IF max = 0 THEN 0
                        ELSE RoundHalfUp(100 * delta, max, <<min, max>> \in RgbSatTieBelow),
         brightness |-> RoundHalfUp(100 * max, 255, FALSE)]

(***************************************************************************)
(* The device, as the NanoleafClient sees it through GET / and its writes  *)
(***************************************************************************)
STREAMING_PORT_V1 == 60221
STREAMING_PORT_V2 == 60222

\* the legacy model and a current one, with the panel layout each reports
DeviceModels == {"NL22", "NL42"}
LayoutOf(model) ==
    IF model = "NL22"
    THEN <<[panelId |-> 7, shapeType |-> 0], [panelId |-> 200, shapeType |-> 0]>>
    ELSE <<[panelId |-> 7, shapeType |-> 7], [panelId |-> 300, shapeType |-> 8],
           [panelId |-> 1, shapeType |-> 12]>>

\* effects.select values: the two static markers and an animated effect
SelectableEffects == {"*Solid*", "*Static*", "Flames"}
\* state.hue / sat / brightness the device starts with
DeviceColors == {[hue |-> 200, saturation |-> 80, brightness |-> 60]}

\* the part of DeviceInfo the client reads
Snapshot(d) ==
    [effect |-> d.effect, hue |-> d.hue, sat |-> d.sat, brightness |-> d.brightness,
     model |-> d.model, positionData |-> d.layout]
NoSnapshot ==
    [effect |-> "", hue |-> 0, sat |-> 0, brightness |-> 0, model |-> "", positionData |-> <<>>]

Req(method, path, body) == [method |-> method, path |-> path, body |-> body]

\* the number NaN, kept apart from every integer the model computes with:
\* Number("abc") of the REST routes is one way it reaches a setter
NaN == -999999
IsNaN(x) == x = NaN

\* the payload has the field, with a number in it (NaN goes out as null)
Carries(body, field) == field \in DOMAIN body /\ ~IsNaN(body[field].value)

\* what a request that succeeded leaves in the device
DeviceApply(d, req) ==
    IF req.method = "PUT" /\ req.path = "/state"
    THEN [d EXCEPT
            !.hue = IF Carries(req.body, "hue") THEN req.body["hue"].value ELSE @,
            !.sat = IF Carries(req.body, "sat") THEN req.body["sat"].value ELSE @,
            !.brightness = IF Carries(req.body, "brightness")
                           THEN req.body["brightness"].value ELSE @]
    ELSE IF req.method = "PUT" /\ req.path = "/effects"
         THEN IF "select" \in DOMAIN req.body
              THEN [d EXCEPT !.effect = req.body.select]
              ELSE IF req.body.write.animType = "static"
                   THEN [d EXCEPT !.effect = "*Static*"]
                   ELSE [d EXCEPT !.effect = "*ExtControl*"]
         ELSE d

(***************************************************************************)
(* NanoleafClient                                                          *)
(***************************************************************************)
Procs == 1..MaxCalls

Min(a, b) == IF a < b THEN a ELSE b
Max(a, b) == IF a > b THEN a ELSE b
\* Math.min and Math.max answer NaN when an argument is NaN
MathMin(a, b) == IF IsNaN(a) \/ IsNaN(b) THEN NaN ELSE Min(a, b)
MathMax(a, b) == IF IsNaN(a) \/ IsNaN(b) THEN NaN ELSE Max(a, b)

\* Math.max(lo, Math.min(hi, x))
Clamp(lo, hi, x) == MathMax(lo, MathMin(hi, x))

\* ensureStaticMode, were "*Static*" not among the effects it leaves alone
IsStaticEffect_SolidOnly(effect) == effect = "*Solid*"

\* ensureStaticMode: effect === "*Solid*" || effect === "*Static*"
IsStaticEffect(effect) == effect = "*Solid*" \/ effect = "*Static*"

\* getLightPanelIds, were the controller panels kept
LightPanelIds_All(positions) == [i \in 1..Len(positions) |-> positions[i].panelId]

\* getLightPanelIds: positions.filter((p) => p.shapeType !== 12).map((p) => p.panelId)
RECURSIVE LightPanelIds(_)
LightPanelIds(positions) ==
    IF positions = <<>>
    THEN <<>>
    ELSE IF Head(positions).shapeType # 12
         THEN <<Head(positions).panelId>> \o LightPanelIds(Tail(positions))
         ELSE LightPanelIds(Tail(positions))

\* the ids of the layout, were the controller panels left out
AllPanelIds_NoController(positions) == LightPanelIds(positions)

\* layout.positions.map((p) => p.panelId)
AllPanelIds(positions) == [i \in 1..Len(positions) |-> positions[i].panelId]

\* setAllPanelsColor / streamSolidColor: the Map with one color for every id
Uniform(ids, color) == [i \in 1..Len(ids) |-> [panelId |-> ids[i], color |-> color]]

\* `${x}` of a template literal for a number: its decimal text, or "NaN"
NumberText(x) == IF IsNaN(x) THEN "NaN" ELSE ToString(x)

\* the entries without the blank that precedes each and without the frame count
\* of 1 that follows the panel id
RECURSIVE AnimEntries_NoFrameCount(_)
AnimEntries_NoFrameCount(panels) ==
    IF panels = <<>>
    THEN ""
    ELSE NumberText(Head(panels).panelId)
         \o " " \o NumberText(Head(panels).color.r)
         \o " " \o NumberText(Head(panels).color.g)
         \o " " \o NumberText(Head(panels).color.b) \o " 0 1"
         \o AnimEntries_NoFrameCount(Tail(panels))

\* setPanelColors: what the loop appends to animData,
\* ` ${panelId} 1 ${color.r} ${color.g} ${color.b} 0 1` for every entry in order
RECURSIVE AnimEntries(_)
AnimEntries(panels) ==
    IF panels = <<>>
    THEN ""
    ELSE " " \o NumberText(Head(panels).panelId) \o " 1"
         \o " " \o NumberText(Head(panels).color.r)
         \o " " \o NumberText(Head(panels).color.g)
         \o " " \o NumberText(Head(panels).color.b) \o " 0 1"
         \o AnimEntries(Tail(panels))

StaticWrite(panels) ==
    Req("PUT", "/effects",
        [write |-> [command |-> "display", animType |-> "static",
                    animData |-> NumberText(Len(panels)) \o AnimEntries(panels),
                    loop |-> FALSE, palette |-> <<>>]])

ExtControlWrite(version) ==
    Req("PUT", "/effects",
        [write |-> [command |-> "display", animType |-> "extControl",
                    extControlVersion |-> IF version = 1 THEN "v1" ELSE "v2"]])

GetInfo == Req("GET", "/", <<>>)

\* setState, were every field sent under the name the caller gave it
StatePayload_KeepNames(op, arg) == [f \in DOMAIN arg |-> [value |-> arg[f]]]

\* the payload of the PUT /state of the five reconciled operations
StatePayload(op, arg) ==
    CASE op = "setBrightness" -> [brightness |-> [value |-> Clamp(0, 100, arg.brightness)]]
      [] op = "setHue" -> [hue |-> [value |-> Clamp(0, 360, arg.hue)]]
      [] op = "setSaturation" -> [sat |-> [value |-> Clamp(0, 100, arg.saturation)]]
      [] op = "setColorTemperature" -> [ct |-> [value |-> Clamp(1200, 6500, arg.ct)]]
      [] OTHER ->
          [k \in {IF f = "saturation" THEN "sat" ELSE f : f \in DOMAIN arg} |->
              CASE k = "on" -> [value |-> arg["on"]]
                [] k = "brightness" -> [value |-> Clamp(0, 100, arg["brightness"])]
                [] k = "hue" -> [value |-> Clamp(0, 360, arg["hue"])]
                [] k = "sat" -> [value |-> Clamp(0, 100, arg["saturation"])]
                [] OTHER -> [value |-> Clamp(1200, 6500, arg["ct"])]]

StateWrite(op, arg) == Req("PUT", "/state", StatePayload(op, arg))

\* buildV1Packet / buildV2Packet: the bytes of the frame
RECURSIVE V1Entries(_)
V1Entries(panels) ==
    IF panels = <<>>
    THEN <<>>
    ELSE <<Head(panels).panelId, 1, Head(panels).color.r, Head(panels).color.g,
           Head(panels).color.b, 0, 1>> \o V1Entries(Tail(panels))

buildV1Packet(panels) == <<Len(panels)>> \o V1Entries(panels)

\* buildV2Packet, were the panel id written low byte first
RECURSIVE V2Entries_LittleEndian(_)
V2Entries_LittleEndian(panels) ==
    IF panels = <<>>
    THEN <<>>
    ELSE <<Head(panels).panelId % 256, Head(panels).panelId \div 256,
           Head(panels).color.r, Head(panels).color.g, Head(panels).color.b, 0, 0, 1>>
         \o V2Entries_LittleEndian(Tail(panels))

RECURSIVE V2Entries(_)
V2Entries(panels) ==
    IF panels = <<>>
    THEN <<>>
    ELSE <<Head(panels).panelId \div 256, Head(panels).panelId % 256,
           Head(panels).color.r, Head(panels).color.g, Head(panels).color.b, 0, 0, 1>>
         \o V2Entries(Tail(panels))

\* buildV2Packet, were the panel count one byte as in V1
buildV2Packet_OneByteCount(panels) == <<Len(panels)>> \o V2Entries(panels)

buildV2Packet(panels) == <<Len(panels) \div 256, Len(panels) % 256>> \o V2Entries(panels)

\* Buffer.writeUInt8 / writeUInt16BE throw a RangeError on a value that does not fit
PacketThrows(version, panels) ==
    LET top == IF version = 1 THEN 255 ELSE 65535
    IN  \/ Len(panels) > top
        \/ \E i \in 1..Len(panels) :
              \/ panels[i].panelId < 0 \/ panels[i].panelId > top
              \/ \E c \in {panels[i].color.r, panels[i].color.g, panels[i].color.b} :
                    c < 0 \/ c > 255

Datagram(version, panels) ==
    [method |-> "UDP",
     path |-> IF version = 1 THEN STREAMING_PORT_V1 ELSE STREAMING_PORT_V2,
     body |-> IF version = 1 THEN buildV1Packet(panels) ELSE buildV2Packet(panels)]

\* one call of an async method: where it is suspended, its locals, and what it has sent
Invocation(op, arg, pc, info, panels, log) ==
    [op |-> op, arg |-> arg, pc |-> pc, info |-> info, panels |-> panels, log |-> log]
NoArg == [void |-> TRUE]
NoCall == Invocation("", NoArg, "idle", NoSnapshot, <<>>, <<>>)

\* the requests of a call in the order of issue; the last is the one it awaits
Sent(c, req) == [c EXCEPT !.log = Append(@, req)]
Pending(c) == c.log[Len(c.log)]

\* a call that has settled keeps its outcome only; its locals are gone
Settled(c, outcome) == [NoCall EXCEPT !.op = c.op, !.pc = outcome]

\* the error axios throws for a request: a timeout, a refusal, a status outside 2xx
ErrorResponse == Req("ERR", "", <<>>)

\* a rejected call carries the error, which names the request that failed
Rejected(c) == [Settled(c, "failed") EXCEPT !.log = <<Pending(c), ErrorResponse>>]

\* the awaited request fails, were it sent again
OnRequestError_Retry(c) == Sent(Sent(c, ErrorResponse), Pending(c))

\* the awaited request fails: no method catches, so the error leaves through
\* every await up to the caller
OnRequestError(c) == Rejected(c)

\* a slot for a new call: nothing in it, or a call that has settled; of the
\* free slots the lowest is taken
InFlight(p) == calls[p].pc \notin {"idle", "done", "failed"}
Free(p) == ~InFlight(p) /\ \A q \in 1..(p - 1) : InFlight(q)

\* a call that ran without an await
Applied(fn, arg, out, threw) == [fn |-> fn, arg |-> arg, out |-> out, threw |-> threw]
NothingApplied == Applied("", <<>>, <<>>, FALSE)

\* private fields of a new NanoleafClient
NewClient ==
    [streamingSocket |-> 0, protocolVersion |-> 2, panelIds |-> <<>>,
     cachedLightPanelIds |-> [cached |-> FALSE, ids |-> <<>>]]

HsbOf(info) == [hue |-> info.hue, saturation |-> info.sat, brightness |-> info.brightness]

\* the colour setAllPanelsColor was called with: setColor's argument, or in
\* ensureStaticMode hsbToRgb of the colour read
AllPanelsColor(c) == IF c.op = "setColor" THEN c.arg.color ELSE hsbToRgb(HsbOf(c.info))

\* the JSON values of a request body; a field that is not there reads undefined
JNumber(n) == [t |-> "number", number |-> n]
JString(text) == [t |-> "string", text |-> text]
JBoolean(b) == [t |-> "boolean", bool |-> b]
JArray(items) == [t |-> "array", items |-> items]
JObject(fields) == [t |-> "object", fields |-> fields]
JNull == [t |-> "null"]
JUndefined == [t |-> "undefined"]

\* a REST exchange: of the request, whether its ?device= parameter resolved and
\* whether its body passed the checks of the route; the status of the response;
\* and whether an error was logged for the command the request dispatched
Answer(resolved, passed, status) ==
    [resolved |-> resolved, passed |-> passed, status |-> status, logged |-> FALSE]
NoAnswer == Answer(FALSE, FALSE, 0)

\* fire(promise): promise.catch((e) => console.error(...)).  The handler runs when
\* a command that a REST route dispatched rejects: the error goes to the log and
\* nowhere else
Caught ==
    rest' = [p \in DOMAIN rest |->
                IF /\ p \in Procs
                   /\ rest[p].status = 202
                   /\ calls'[p].pc = "failed" /\ calls[p].pc # "failed"
                THEN [rest[p] EXCEPT !.logged = TRUE]
                ELSE rest[p]]

(***************************************************************************)
(* Static-Mode Reconciler and the state writes behind it.  A step is the   *)
(* arrival of the response a call awaits together with the code that runs  *)
(* up to the next request.                                                 *)
(***************************************************************************)
ReconciledOps == {"setBrightness", "setHue", "setSaturation", "setColorTemperature", "setState"}
ReconciledInputs ==
    {<<"setBrightness", [brightness |-> 40]>>,
     <<"setHue", [hue |-> 400]>>,
     <<"setSaturation", [saturation |-> 0 - 5]>>,
     <<"setColorTemperature", [ct |-> 100]>>,
     <<"setState", [on |-> TRUE, brightness |-> 40, ct |-> 7000]>>}

\* arguments in range, below, above and NaN, and for setState every subset of
\* its fields
NoFields == [f \in {} |-> 0]
SetStateArgs ==
    {o @@ b @@ h @@ s @@ t :
        o \in {NoFields, [on |-> TRUE]},
        b \in {NoFields, [brightness |-> 140]},
        h \in {NoFields, [hue |-> 400]},
        s \in {NoFields, [saturation |-> 0 - 5]},
        t \in {NoFields, [ct |-> 100]}}
WideInputs ==
    {<<"setBrightness", [brightness |-> x]>> : x \in {0 - 5, 60, 140, NaN}}
    \cup {<<"setHue", [hue |-> x]>> : x \in {0 - 1, 200, 400}}
    \cup {<<"setSaturation", [saturation |-> x]>> : x \in {0 - 5, 80, 101}}
    \cup {<<"setColorTemperature", [ct |-> x]>> : x \in {100, 2700, 7000}}
    \cup {<<"setState", arg>> : arg \in SetStateArgs \cup {[hue |-> NaN, ct |-> 7000]}}

\* setBrightness, setHue, setSaturation, setColorTemperature, setState up to the
\* first await: ensureStaticMode has asked for the device info
ReconciledEnter(op, arg) ==
    Invocation(op, arg, "ensureStaticMode", NoSnapshot, <<>>, <<GetInfo>>)

ReconciledCall(p, op, arg) ==
    /\ Free(p)
    /\ calls' = [calls EXCEPT ![p] = ReconciledEnter(op, arg)]
    /\ UNCHANGED <<hw, cl, sockets>>
    /\ UNCHANGED <<regVars, fx, adds>>
    /\ Caught

\* ensureStaticMode after getInfo: return to the state write, or go on to
\* setAllPanelsColor, whose getLightPanelIds answers from the cache or asks for the layout
EnsureStaticModeResume(p) ==
    /\ calls[p].pc = "ensureStaticMode"
    /\ LET info == Snapshot(hw)
           \* what the call has read: the effect, and past the early return the rest
           c == [calls[p] EXCEPT !.info = IF IsStaticEffect(info.effect)
                                          THEN [NoSnapshot EXCEPT !.effect = info.effect]
                                          ELSE info]
           ids == cl.cachedLightPanelIds.ids
       IN  calls' = [calls EXCEPT ![p] =
                IF IsStaticEffect(info.effect)
                THEN [Sent(c, StateWrite(c.op, c.arg)) EXCEPT !.pc = "stateWrite"]
                ELSE IF cl.cachedLightPanelIds.cached
                     THEN [Sent(c, StaticWrite(Uniform(ids, AllPanelsColor(c))))
                             EXCEPT !.pc = "setPanelColors", !.panels = ids]
                     ELSE [Sent(c, GetInfo) EXCEPT !.pc = "getLightPanelIds"]]
    /\ UNCHANGED <<hw, cl, sockets>>
    /\ UNCHANGED <<regVars, fx, adds>>
    /\ Caught

\* getLightPanelIds after getPanelLayout, were the result returned and not kept
GetLightPanelIdsResume_NoStore(p) ==
    /\ calls[p].pc = "getLightPanelIds"
    /\ LET ids == LightPanelIds(Snapshot(hw).positionData)
           c == calls[p]
       IN  calls' = [calls EXCEPT ![p] =
                    [Sent(c, StaticWrite(Uniform(ids, AllPanelsColor(c))))
                       EXCEPT !.pc = "setPanelColors", !.panels = ids]]
    /\ UNCHANGED <<hw, cl, sockets>>
    /\ UNCHANGED <<regVars, fx, adds>>
    /\ Caught

\* getLightPanelIds after getPanelLayout: fill the cache, then setPanelColors
GetLightPanelIdsResume(p) ==
    /\ calls[p].pc = "getLightPanelIds"
    /\ LET ids == LightPanelIds(Snapshot(hw).positionData)
           c == calls[p]
       IN  /\ cl' = [cl EXCEPT !.cachedLightPanelIds = [cached |-> TRUE, ids |-> ids]]
           /\ calls' = [calls EXCEPT ![p] =
                    [Sent(c, StaticWrite(Uniform(ids, AllPanelsColor(c))))
                       EXCEPT !.pc = "setPanelColors", !.panels = ids]]
    /\ UNCHANGED <<hw, sockets>>
    /\ UNCHANGED <<regVars, fx, adds>>
    /\ Caught

\* the static write is through: setColor and setPanelColors resolve; ensureStaticMode returns and
\* the state write goes out
SetPanelColorsResume(p) ==
    /\ calls[p].pc = "setPanelColors"
    /\ hw' = DeviceApply(hw, Pending(calls[p]))
    /\ calls' = [calls EXCEPT ![p] =
                    IF calls[p].op \in {"setColor", "setPanelColors"}
                    THEN Settled(calls[p], "done")
                    ELSE [Sent(calls[p], StateWrite(calls[p].op, calls[p].arg))
                            EXCEPT !.pc = "stateWrite"]]
    /\ UNCHANGED <<cl, sockets>>
    /\ UNCHANGED <<regVars, fx, adds>>
    /\ Caught

\* the state write is through, were the effect looked at again afterwards
StateWriteResume_Recheck(p) ==
    /\ calls[p].pc = "stateWrite"
    /\ hw' = DeviceApply(hw, Pending(calls[p]))
    /\ calls' = [calls EXCEPT ![p] =
                    IF IsStaticEffect(hw.effect)
                    THEN Settled(calls[p], "done")
                    ELSE [Sent(calls[p], GetInfo) EXCEPT !.pc = "ensureStaticMode"]]
    /\ UNCHANGED <<cl, sockets>>
    /\ UNCHANGED <<regVars, fx, adds>>
    /\ Caught

\* the state write is through: the call resolves
StateWriteResume(p) ==
    /\ calls[p].pc = "stateWrite"
    /\ hw' = DeviceApply(hw, Pending(calls[p]))
    /\ calls' = [calls EXCEPT ![p] = Settled(calls[p], "done")]
    /\ UNCHANGED <<cl, sockets>>
    /\ UNCHANGED <<regVars, fx, adds>>
    /\ Caught

\* setColor(color) up to the first await: setAllPanelsColor, whose
\* getLightPanelIds answers from the cache or asks for the layout
SetColorEnter(client, color) ==
    LET c == Invocation("setColor", [color |-> color], "", NoSnapshot, <<>>, <<>>)
        ids == client.cachedLightPanelIds.ids
    IN  IF client.cachedLightPanelIds.cached
        THEN [Sent(c, StaticWrite(Uniform(ids, color)))
                EXCEPT !.pc = "setPanelColors", !.panels = ids]
        ELSE [Sent(c, GetInfo) EXCEPT !.pc = "getLightPanelIds"]

SetColorCall(p, color) ==
    /\ Free(p)
    /\ calls' = [calls EXCEPT ![p] = SetColorEnter(cl, color)]
    /\ UNCHANGED <<hw, cl, sockets>>
    /\ UNCHANGED <<regVars, fx, adds>>
    /\ Caught

\* a panel is plugged into the device or taken off it
GrownLayoutOf(model) == Append(LayoutOf(model), [panelId |-> 9, shapeType |-> 0])
LayoutChanges ==
    /\ hw' = [hw EXCEPT !.layout = IF @ = LayoutOf(hw.model)
                                   THEN GrownLayoutOf(hw.model)
                                   ELSE LayoutOf(hw.model)]
    /\ UNCHANGED <<cl, sockets, calls>>
    /\ UNCHANGED <<regVars, fx, adds>>
    /\ Caught

\* setEffect(name): one write, no reconciliation
SetEffectEnter(name) ==
    Invocation("setEffect", [name |-> name], "setEffect", NoSnapshot, <<>>,
               <<Req("PUT", "/effects", [select |-> name])>>)

SetEffectCall(p, name) ==
    /\ Free(p)
    /\ calls' = [calls EXCEPT ![p] = SetEffectEnter(name)]
    /\ UNCHANGED <<hw, cl, sockets>>
    /\ UNCHANGED <<regVars, fx, adds>>
    /\ Caught

SetEffectResume(p) ==
    /\ calls[p].pc = "setEffect"
    /\ hw' = DeviceApply(hw, Pending(calls[p]))
    /\ calls' = [calls EXCEPT ![p] = Settled(calls[p], "done")]
    /\ UNCHANGED <<cl, sockets>>
    /\ UNCHANGED <<regVars, fx, adds>>
    /\ Caught

\* setPanelColors(panelColors) called by a front-end: the static write for the
\* entries of the Map goes out
SetPanelColorsEnter(panelColors) ==
    Invocation("setPanelColors", [panelColors |-> panelColors],
               "setPanelColors", NoSnapshot, panelColors, <<StaticWrite(panelColors)>>)

SetPanelColorsCall(p, panelColors) ==
    /\ Free(p)
    /\ calls' = [calls EXCEPT ![p] = SetPanelColorsEnter(panelColors)]
    /\ UNCHANGED <<hw, cl, sockets>>
    /\ UNCHANGED <<regVars, fx, adds>>
    /\ Caught

\* turnOn, turnOff, identify, listEffects, getCurrentEffect: the one request
\* each of them awaits
OneRequestOps == {"turnOn", "turnOff", "identify", "listEffects", "getCurrentEffect"}
RequestOf(op) ==
    CASE op = "turnOn" -> Req("PUT", "/state", [on |-> [value |-> TRUE]])
      [] op = "turnOff" -> Req("PUT", "/state", [on |-> [value |-> FALSE]])
      [] op = "identify" -> Req("PUT", "/identify", NoFields)
      [] op = "listEffects" -> Req("GET", "/effects/effectsList", <<>>)
      [] OTHER -> Req("GET", "/effects/select", <<>>)

\* a turnOn that went through ensureStaticMode like the setters
OneRequestCall_Reconciled(p, op) ==
    /\ Free(p)
    /\ calls' = [calls EXCEPT ![p] =
                    IF op = "turnOn"
                    THEN Invocation("turnOn", [on |-> TRUE], "ensureStaticMode",
                                    NoSnapshot, <<>>, <<GetInfo>>)
                    ELSE Invocation(op, NoArg, "oneRequest", NoSnapshot, <<>>,
                                    <<RequestOf(op)>>)]
    /\ UNCHANGED <<hw, cl, sockets>>
    /\ UNCHANGED <<regVars, fx, adds>>
    /\ Caught

OneRequestEnter(op) ==
    Invocation(op, NoArg, "oneRequest", NoSnapshot, <<>>, <<RequestOf(op)>>)

OneRequestCall(p, op) ==
    /\ Free(p)
    /\ calls' = [calls EXCEPT ![p] = OneRequestEnter(op)]
    /\ UNCHANGED <<hw, cl, sockets>>
    /\ UNCHANGED <<regVars, fx, adds>>
    /\ Caught

\* the request is through: the call resolves
OneRequestResume(p) ==
    /\ calls[p].pc = "oneRequest"
    /\ hw' = DeviceApply(hw, Pending(calls[p]))
    /\ calls' = [calls EXCEPT ![p] = Settled(calls[p], "done")]
    /\ UNCHANGED <<cl, sockets>>
    /\ UNCHANGED <<regVars, fx, adds>>
    /\ Caught

\* the awaited request fails, were the socket of initializeStreaming created
\* ahead of the extControl write
RequestFails_SocketFirst(p) ==
    /\ InFlight(p)
    /\ calls' = [calls EXCEPT ![p] = OnRequestError(calls[p])]
    /\ sockets' = IF calls[p].pc = "extControl" THEN Append(sockets, "open") ELSE sockets
    /\ cl' = IF calls[p].pc = "extControl"
             THEN [cl EXCEPT !.streamingSocket = Len(sockets')]
             ELSE cl
    /\ UNCHANGED hw
    /\ UNCHANGED <<regVars, fx, adds>>
    /\ Caught

\* the request a call awaits fails (refused, timed out, error status): axios
\* throws, nothing catches, the call rejects
RequestFails(p) ==
    /\ InFlight(p)
    /\ calls' = [calls EXCEPT ![p] = OnRequestError(calls[p])]
    /\ UNCHANGED <<hw, cl, sockets>>
    /\ UNCHANGED <<regVars, fx, adds>>
    /\ Caught

(***************************************************************************)
(* Streaming group.  streamColors runs on from the await of                *)
(* initializeStreaming in the step that creates the socket.                *)
(***************************************************************************)
Red == [r |-> 255, g |-> 0, b |-> 0]
Blue == [r |-> 0, g |-> 0, b |-> 255]
\* the maps given to streamColors, as entries in insertion order
StreamInputs == {<<[panelId |-> 7, color |-> Red]>>,
                 <<[panelId |-> 300, color |-> Blue], [panelId |-> 7, color |-> Red]>>}
SolidColors == {Blue}

\* initializeStreaming, were every model given the current protocol
SelectProtocol_AlwaysV2(model) == 2

\* initializeStreaming: model === "NL22" ? 1 : 2
SelectProtocol(model) == IF model = "NL22" THEN 1 ELSE 2

\* sockets made so far and those the calls in flight may still make
SocketsInSight ==
    Len(sockets) + Cardinality({q \in Procs : calls[q].pc \in
        {"initializeStreaming", "getPanelLayout", "extControl", "streamSolidColor"}})

\* streamColors from building the packet on: the write of a value that does
\* not fit throws, otherwise the datagram goes out
SendPacket(c, client, panels) ==
    IF PacketThrows(client.protocolVersion, panels)
    THEN Settled(c, "failed")
    ELSE [Sent(c, Datagram(client.protocolVersion, panels)) EXCEPT !.pc = "send", !.panels = panels]

\* streamColors up to its first await
StreamColorsEnter(c, client, panels) ==
    IF client.streamingSocket = 0
    THEN [Sent(c, GetInfo) EXCEPT !.pc = "initializeStreaming", !.panels = panels]
    ELSE SendPacket(c, client, panels)

InitializeStreamingCall(p) ==
    /\ Free(p)
    /\ SocketsInSight < MaxSockets
    /\ calls' = [calls EXCEPT ![p] =
                    Invocation("initializeStreaming", NoArg, "initializeStreaming",
                               NoSnapshot, <<>>, <<GetInfo>>)]
    /\ UNCHANGED <<hw, cl, sockets>>
    /\ UNCHANGED <<regVars, fx, adds>>
    /\ Caught

\* streamColors(panelColors) called by a front-end
StreamColorsBegin(client, panelColors) ==
    StreamColorsEnter(Invocation("streamColors", [panelColors |-> panelColors],
                                 "", NoSnapshot, <<>>, <<>>),
                      client, panelColors)

StreamColorsCall(p, panelColors) ==
    /\ Free(p)
    /\ cl.streamingSocket = 0 => SocketsInSight < MaxSockets
    /\ calls' = [calls EXCEPT ![p] = StreamColorsBegin(cl, panelColors)]
    /\ UNCHANGED <<hw, cl, sockets>>
    /\ UNCHANGED <<regVars, fx, adds>>
    /\ Caught

\* streamSolidColor up to its first await: without stored ids it asks for the layout
StreamSolidColorEnter(client, color) ==
    LET c == Invocation("streamSolidColor", [color |-> color], "", NoSnapshot, <<>>, <<>>)
    IN  IF Len(client.panelIds) = 0
        THEN [Sent(c, GetInfo) EXCEPT !.pc = "streamSolidColor"]
        ELSE StreamColorsEnter(c, client, Uniform(client.panelIds, color))

StreamSolidColorCall(p, color) ==
    /\ Free(p)
    /\ (cl.streamingSocket = 0 \/ Len(cl.panelIds) = 0) => SocketsInSight < MaxSockets
    /\ calls' = [calls EXCEPT ![p] = StreamSolidColorEnter(cl, color)]
    /\ UNCHANGED <<hw, cl, sockets>>
    /\ UNCHANGED <<regVars, fx, adds>>
    /\ Caught

\* streamSolidColor after getPanelLayout: keep the ids and go into streamColors
StreamSolidColorResume(p) ==
    /\ calls[p].pc = "streamSolidColor"
    /\ cl' = [cl EXCEPT !.panelIds = AllPanelIds(Snapshot(hw).positionData)]
    /\ calls' = [calls EXCEPT ![p] =
                    StreamColorsEnter(calls[p], cl', Uniform(cl'.panelIds, calls[p].arg.color))]
    /\ UNCHANGED <<hw, sockets>>
    /\ UNCHANGED <<regVars, fx, adds>>
    /\ Caught

\* initializeStreaming after getInfo: the protocol version, then getPanelLayout
InitializeStreamingResume(p) ==
    /\ calls[p].pc = "initializeStreaming"
    /\ cl' = [cl EXCEPT !.protocolVersion = SelectProtocol(Snapshot(hw).model)]
    /\ calls' = [calls EXCEPT ![p] = [Sent(calls[p], GetInfo) EXCEPT !.pc = "getPanelLayout"]]
    /\ UNCHANGED <<hw, sockets>>
    /\ UNCHANGED <<regVars, fx, adds>>
    /\ Caught

\* initializeStreaming after getPanelLayout: the panel ids, then the extControl write
GetPanelLayoutResume(p) ==
    /\ calls[p].pc = "getPanelLayout"
    /\ cl' = [cl EXCEPT !.panelIds = AllPanelIds(Snapshot(hw).positionData)]
    /\ calls' = [calls EXCEPT ![p] =
                    [Sent(calls[p], ExtControlWrite(cl.protocolVersion)) EXCEPT !.pc = "extControl"]]
    /\ UNCHANGED <<hw, sockets>>
    /\ UNCHANGED <<regVars, fx, adds>>
    /\ Caught

\* initializeStreaming after the extControl write: a new socket takes the field;
\* a streamColors that awaited it sends
ExtControlResume(p) ==
    /\ calls[p].pc = "extControl"
    /\ hw' = DeviceApply(hw, Pending(calls[p]))
    /\ sockets' = Append(sockets, "open")
    /\ cl' = [cl EXCEPT !.streamingSocket = Len(sockets')]
    /\ calls' = [calls EXCEPT ![p] =
                    IF calls[p].op = "initializeStreaming"
                    THEN Settled(calls[p], "done")
                    ELSE SendPacket(calls[p], cl', calls[p].panels)]
    /\ UNCHANGED <<regVars, fx, adds>>
    /\ Caught

\* the send callback without an error
SendResume(p) ==
    /\ calls[p].pc = "send"
    /\ calls' = [calls EXCEPT ![p] = Settled(calls[p], "done")]
    /\ UNCHANGED <<hw, cl, sockets>>
    /\ UNCHANGED <<regVars, fx, adds>>
    /\ Caught

\* stopStreaming: if (this.streamingSocket) { close it; this.streamingSocket = null }
StopStreaming(client, socks) ==
    IF client.streamingSocket # 0
    THEN [cl |-> [client EXCEPT !.streamingSocket = 0],
          sockets |-> [socks EXCEPT ![client.streamingSocket] = "closed"]]
    ELSE [cl |-> client, sockets |-> socks]

\* stopStreaming has no await: it runs in one piece
StopStreamingCall ==
    /\ cl' = StopStreaming(cl, sockets).cl
    /\ sockets' = StopStreaming(cl, sockets).sockets
    /\ fx' = Applied("stopStreaming", <<cl.streamingSocket>>, <<>>, FALSE)
    /\ UNCHANGED <<hw, calls>>
    /\ UNCHANGED <<regVars, feVars>>

(***************************************************************************)
(* Streaming Codec on its own: a builder applied once to a Map of up to    *)
(* MaxPanels entries, with ids and channels at and past the field widths   *)
(***************************************************************************)
CodecPanelIds == {0, 7, 255, 256, 300, 65535, 65536}
CodecColors == {Red, [r |-> 1, g |-> 2, b |-> 3], [r |-> 0, g |-> 256, b |-> 0]}
\* Maps as entries in insertion order: no key twice
CodecInputs ==
    {m \in UNION {[1..n -> [panelId : CodecPanelIds, color : CodecColors]] : n \in 0..MaxPanels} :
        \A i, j \in 1..Len(m) : m[i].panelId = m[j].panelId => i = j}

BuildV1PacketCall(panels) ==
    /\ fx = NothingApplied
    /\ fx' = IF PacketThrows(1, panels)
             THEN Applied("buildV1Packet", panels, <<>>, TRUE)
             ELSE Applied("buildV1Packet", panels, buildV1Packet(panels), FALSE)
    /\ UNCHANGED <<regVars, cliVars, feVars>>

BuildV2PacketCall(panels) ==
    /\ fx = NothingApplied
    /\ fx' = IF PacketThrows(2, panels)
             THEN Applied("buildV2Packet", panels, <<>>, TRUE)
             ELSE Applied("buildV2Packet", panels, buildV2Packet(panels), FALSE)
    /\ UNCHANGED <<regVars, cliVars, feVars>>

(***************************************************************************)
(* Color Model on its own: one of the two conversions, or their            *)
(* composition, applied once                                               *)
(***************************************************************************)
RgbInputs == [r : ColorChannels, g : ColorChannels, b : ColorChannels]
HsbInputs ==
    [hue : {0, 1, 59, 60, 61, 119, 120, 180, 214, 240, 300, 359, 360},
     saturation : {0, 1, 50, 80, 99, 100},
     brightness : {0, 1, 47, 50, 60, 99, 100}]

HsbToRgbCall(color) ==
    /\ fx = NothingApplied
    /\ fx' = Applied("hsbToRgb", color, hsbToRgb(color), FALSE)
    /\ UNCHANGED <<regVars, cliVars, feVars>>

RgbToHsbCall(color) ==
    /\ fx = NothingApplied
    /\ fx' = Applied("rgbToHsb", color, rgbToHsb(color), FALSE)
    /\ UNCHANGED <<regVars, cliVars, feVars>>

\* hsbToRgb(rgbToHsb(color))
RoundTripCall(color) ==
    /\ fx = NothingApplied
    /\ fx' = Applied("roundTrip", color, hsbToRgb(rgbToHsb(color)), FALSE)
    /\ UNCHANGED <<regVars, cliVars, feVars>>

(***************************************************************************)
(* The REST routes that answer before their command has run.  A step is    *)
(* one run of a route handler: resolve, the checks of the body, the call   *)
(* of the client method up to its first await, and the response.           *)
(***************************************************************************)
\* const { field } = req.body ?? {}, and p.field of an entry that is not null
Field(j, field) ==
    IF j.t = "object" /\ field \in DOMAIN j.fields THEN j.fields[field] ELSE JUndefined

\* Number(text): the value of a run of decimal digits, 0 for the empty string,
\* NaN for the rest
RECURSIVE DecimalOf(_, _)
DecimalOf(text, n) ==
    IF text = ""
    THEN n
    ELSE IF \E d \in 0..9 : ToString(d) = Head(text)
         THEN DecimalOf(Tail(text), 10 * n + (CHOOSE d \in 0..9 : ToString(d) = Head(text)))
         ELSE NaN

\* Number(value)
ToNumber(j) ==
    CASE j.t = "number" -> j.number
      [] j.t = "string" -> DecimalOf(j.text, 0)
      [] j.t = "boolean" -> IF j.bool THEN 1 ELSE 0
      [] j.t = "null" -> 0
      [] OTHER -> NaN

\* !value
Falsy(j) ==
    CASE j.t = "undefined" -> TRUE
      [] j.t = "null" -> TRUE
      [] j.t = "string" -> j.text = ""
      [] j.t = "number" -> j.number = 0 \/ IsNaN(j.number)
      [] j.t = "boolean" -> ~j.bool
      [] OTHER -> FALSE

\* parseColor: colord with the CSS names; hue and saturation of the colour, the
\* alpha channel as brightness; null for what is no colour
Parsed(hue, saturation, brightness) ==
    [null |-> FALSE, hue |-> hue, saturation |-> saturation, brightness |-> brightness]
ParsedNull == [Parsed(0, 0, 0) EXCEPT !.null = TRUE]
ParseColor(j) ==
    IF j = JString("red") THEN Parsed(0, 100, 100)
    ELSE IF j = JString("rgba(0,0,255,0.5)") THEN Parsed(240, 100, 50)
    ELSE ParsedNull

Routes ==
    {"on", "off", "brightness", "hue", "saturation", "color", "color/rgb",
     "color/temperature", "state", "effects", "panels/colors", "panels/solid",
     "streaming/solid", "streaming/panels", "identify"}

\* the one number a route asks for, and the method it is handed to
NumberRoutes == {"brightness", "hue", "saturation", "color/temperature"}
NumberField(route) == IF route = "color/temperature" THEN "ct" ELSE route
NumberSetter(route) ==
    CASE route = "brightness" -> "setBrightness"
      [] route = "hue" -> "setHue"
      [] route = "saturation" -> "setSaturation"
      [] OTHER -> "setColorTemperature"
RgbRoutes == {"color/rgb", "panels/solid", "streaming/solid"}
PanelRoutes == {"panels/colors", "streaming/panels"}

\* the checks of a route that end in res.status(400)
RouteRejects(route, body) ==
    CASE route \in NumberRoutes -> Field(body, NumberField(route)) = JUndefined
      [] route = "color" ->
            Falsy(Field(body, "color")) \/ ParseColor(Field(body, "color")).null
      [] route \in RgbRoutes ->
            \E f \in {"r", "g", "b"} : Field(body, f) = JUndefined
      [] route = "state" ->
            ~Falsy(Field(body, "color")) /\ ParseColor(Field(body, "color")).null
      [] route = "effects" -> Falsy(Field(body, "effectName"))
      [] route \in PanelRoutes ->
            Field(body, "panels").t # "array" \/ Len(Field(body, "panels").items) = 0
      [] OTHER -> FALSE

\* for (const p of panels) panelColors.set(Number(p.panelId), ...): reading a
\* property of null throws a TypeError, which leaves the handler
RouteThrows(route, body) ==
    /\ route \in PanelRoutes
    /\ \E i \in 1..Len(Field(body, "panels").items) : Field(body, "panels").items[i] = JNull

\* { r: Number(red), g: Number(g), b: Number(b) }
RgbOf(j) ==
    [r |-> ToNumber(Field(j, "r")), g |-> ToNumber(Field(j, "g")),
     b |-> ToNumber(Field(j, "b"))]

\* the Map the panel routes build: set replaces the colour of a key that is there
\* and appends a key that is not
RECURSIVE PanelMap(_, _)
PanelMap(items, m) ==
    IF items = <<>>
    THEN m
    ELSE LET id == ToNumber(Field(Head(items), "panelId"))
             entry == [panelId |-> id, color |-> RgbOf(Head(items))]
         IN  PanelMap(Tail(items),
                      IF \E i \in 1..Len(m) : m[i].panelId = id
                      THEN [i \in 1..Len(m) |-> IF m[i].panelId = id THEN entry ELSE m[i]]
                      ELSE Append(m, entry))

\* one field of the object PUT /device/state and PUT /device/color hand to setState;
\* a field that is undefined is left out
Given(field, j) == IF j = JUndefined THEN NoFields ELSE field :> ToNumber(j)
Preferred(field, j, parsed, part) ==
    IF j # JUndefined THEN field :> ToNumber(j)
    ELSE IF ~parsed.null THEN field :> parsed[part]
    ELSE NoFields
StateOf(body) ==
    LET parsed == IF Falsy(Field(body, "color"))
                  THEN ParsedNull
                  ELSE ParseColor(Field(body, "color"))
    IN  (IF Field(body, "on") = JUndefined THEN NoFields ELSE "on" :> Field(body, "on").bool)
        @@ Preferred("brightness", Field(body, "brightness"), parsed, "brightness")
        @@ Preferred("hue", Field(body, "hue"), parsed, "hue")
        @@ Preferred("saturation", Field(body, "saturation"), parsed, "saturation")
        @@ Given("ct", Field(body, "ct"))

\* fire(r.client.method(...)): the call of the method, which runs up to its first await
CommandOf(route, body, client) ==
    CASE route = "on" -> OneRequestEnter("turnOn")
      [] route = "off" -> OneRequestEnter("turnOff")
      [] route = "identify" -> OneRequestEnter("identify")
      [] route \in NumberRoutes ->
            ReconciledEnter(NumberSetter(route),
                            NumberField(route) :> ToNumber(Field(body, NumberField(route))))
      [] route = "color" ->
            LET parsed == ParseColor(Field(body, "color"))
            IN  ReconciledEnter("setState",
                                [on |-> TRUE, hue |-> parsed.hue,
                                 saturation |-> parsed.saturation,
                                 brightness |-> parsed.brightness])
      [] route = "state" -> ReconciledEnter("setState", StateOf(body))
      [] route = "effects" -> SetEffectEnter(Field(body, "effectName").text)
      [] route = "panels/colors" ->
            SetPanelColorsEnter(PanelMap(Field(body, "panels").items, <<>>))
      [] route = "streaming/panels" ->
            StreamColorsBegin(client, PanelMap(Field(body, "panels").items, <<>>))
      [] route = "streaming/solid" -> StreamSolidColorEnter(client, RgbOf(body))
      [] OTHER -> SetColorEnter(client, RgbOf(body))

\* a command of a streaming route that may create a socket
MayOpenSocket(route, client) ==
    \/ route = "streaming/panels" /\ client.streamingSocket = 0
    \/ route = "streaming/solid" /\ (client.streamingSocket = 0 \/ Len(client.panelIds) = 0)

\* one of the fifteen handlers, from the request to the response
RestRoute(p, route, device, body) ==
    /\ LET resolved == resolve(devices, heap, device).kind = "ok"
           passed == ~RouteRejects(route, body)
       IN  IF ~resolved \/ ~passed
           THEN /\ rest' = [rest EXCEPT ![0] = Answer(resolved, passed, 400)]
                /\ UNCHANGED cliVars
           ELSE IF RouteThrows(route, body)
                THEN /\ rest' = [rest EXCEPT ![0] = Answer(resolved, passed, 500)]
                     /\ UNCHANGED cliVars
                ELSE /\ Free(p)
                     /\ MayOpenSocket(route, cl) => SocketsInSight < MaxSockets
                     /\ calls' = [calls EXCEPT ![p] = CommandOf(route, body, cl)]
                     /\ rest' = [rest EXCEPT ![p] =
                                   [Answer(resolved, passed, 202)
                                       EXCEPT !.logged = (calls'[p].pc = "failed")]]
                     /\ UNCHANGED <<hw, cl, sockets>>
    /\ UNCHANGED <<regVars, fx, adds>>

(***************************************************************************)
(* Initial state and the specifications                                    *)
(***************************************************************************)
Init ==
    /\ devices = <<>>
    /\ heap = <<>>
    /\ nextObj = 1
    /\ rf = RfIdle
    /\ last = Call("none", "", NoResult, 0, NoInfo)
    /\ rr = NoRR
    /\ upgraded = {}
    /\ \E model \in DeviceModels, color \in DeviceColors :
          hw = [effect |-> "Flames", hue |-> color.hue, sat |-> color.saturation,
                brightness |-> color.brightness, model |-> model, layout |-> LayoutOf(model)]
    /\ cl = NewClient
    /\ sockets = <<>>
    /\ calls = [p \in Procs |-> NoCall]
    /\ fx = NothingApplied
    /\ adds = [a \in Adders |-> NoAdd]
    /\ rest = [p \in 0..MaxCalls |-> NoAnswer]

NextRegistry ==
    \/ \E ip \in IPs, t \in Tokens, a \in AliasArgs : RegisterCall(ip, t, a)
    \/ \E a \in Identifiers : RemoveCall(a)
    \/ \E p \in Identifiers \cup {""} : ResolveCall(p)
    \/ RefreshNamesStart
    \/ \E info \in FetchOutcomes : RefreshNamesResume(info)

SpecRegistry == Init /\ [][NextRegistry]_vars

NextAddDevice ==
    \/ \E a \in Adders, who \in AddInputs, alias \in AliasArgs :
          AddDeviceCall(a, who[1], who[2], who[3], alias)
    \/ \E a \in Adders, info \in FetchOutcomes : AddDeviceResume(a, info)

SpecAddDevice == Init /\ [][NextAddDevice]_vars

NextReconciler ==
    \/ \E p \in Procs, call \in ReconciledInputs : ReconciledCall(p, call[1], call[2])
    \/ \E p \in Procs : EnsureStaticModeResume(p)
    \/ \E p \in Procs : GetLightPanelIdsResume(p)
    \/ \E p \in Procs : SetPanelColorsResume(p)
    \/ \E p \in Procs : StateWriteResume(p)
    \/ \E p \in Procs, name \in SelectableEffects : SetEffectCall(p, name)
    \/ \E p \in Procs : SetEffectResume(p)
    \/ \E p \in Procs : RequestFails(p)

SpecReconciler == Init /\ [][NextReconciler]_vars

\* the Maps given to setPanelColors, as entries in insertion order: none, one
\* panel, panels out of layout order with the controller panel among them, and
\* a panel id no layout has
PanelInputs ==
    {<<>>,
     <<[panelId |-> 7, color |-> Red]>>,
     <<[panelId |-> 300, color |-> Blue], [panelId |-> 1, color |-> Red]>>,
     <<[panelId |-> 4242, color |-> [r |-> 1, g |-> 20, b |-> 255]]>>}

\* one call at a time, over the wide inputs, on a device whose layout may change
NextSingleCall ==
    \/ \E call \in WideInputs : ReconciledCall(1, call[1], call[2])
    \/ EnsureStaticModeResume(1)
    \/ GetLightPanelIdsResume(1)
    \/ SetPanelColorsResume(1)
    \/ StateWriteResume(1)
    \/ \E color \in SolidColors : SetColorCall(1, color)
    \/ \E name \in SelectableEffects : SetEffectCall(1, name)
    \/ SetEffectResume(1)
    \/ RequestFails(1)
    \/ LayoutChanges
    \/ \E panelColors \in PanelInputs : SetPanelColorsCall(1, panelColors)
    \/ \E op \in OneRequestOps : OneRequestCall(1, op)
    \/ OneRequestResume(1)

SpecSingleCall == Init /\ [][NextSingleCall]_vars

\* whole-device colour writes that overlap, on a device whose layout may change
CacheInputs == {<<"setBrightness", [brightness |-> 40]>>}
NextCache ==
    \/ \E p \in Procs, call \in CacheInputs : ReconciledCall(p, call[1], call[2])
    \/ \E p \in Procs : EnsureStaticModeResume(p)
    \/ \E p \in Procs : GetLightPanelIdsResume(p)
    \/ \E p \in Procs : SetPanelColorsResume(p)
    \/ \E p \in Procs : StateWriteResume(p)
    \/ \E p \in Procs, color \in SolidColors : SetColorCall(p, color)
    \/ \E p \in Procs, name \in SelectableEffects : SetEffectCall(p, name)
    \/ \E p \in Procs : SetEffectResume(p)
    \/ \E p \in Procs : RequestFails(p)
    \/ LayoutChanges

SpecCache == Init /\ [][NextCache]_vars

NextCodec ==
    \/ \E panels \in CodecInputs : BuildV1PacketCall(panels)
    \/ \E panels \in CodecInputs : BuildV2PacketCall(panels)

SpecCodec == Init /\ [][NextCodec]_vars

NextColor ==
    \/ \E color \in HsbInputs : HsbToRgbCall(color)
    \/ \E color \in RgbInputs : RgbToHsbCall(color)
    \/ \E color \in RgbInputs : RoundTripCall(color)

SpecColor == Init /\ [][NextColor]_vars

NextStreaming ==
    \/ \E p \in Procs : InitializeStreamingCall(p)
    \/ \E p \in Procs, panelColors \in StreamInputs : StreamColorsCall(p, panelColors)
    \/ \E p \in Procs, color \in SolidColors : StreamSolidColorCall(p, color)
    \/ \E p \in Procs : StreamSolidColorResume(p)
    \/ \E p \in Procs : InitializeStreamingResume(p)
    \/ \E p \in Procs : GetPanelLayoutResume(p)
    \/ \E p \in Procs : ExtControlResume(p)
    \/ \E p \in Procs : SendResume(p)
    \/ StopStreamingCall
    \/ \E p \in Procs : RequestFails(p)
    \/ LayoutChanges

SpecStreaming == Init /\ [][NextStreaming]_vars

\* the requests sent to the routes: for every route a body it takes, addressed
\* to the device by its alias; some of them to the only device, without a name,
\* and to a device that is not there; bodies with a field missing, empty or of
\* another type; and panels with a null among them
RedBody == JObject([r |-> JNumber(255), g |-> JNumber(0), b |-> JNumber(0)])
PanelBody(items) == JObject([panels |-> JArray(items)])
RedPanel ==
    JObject([panelId |-> JNumber(7), r |-> JNumber(255), g |-> JNumber(0), b |-> JNumber(0)])
TakenBodies ==
    {<<"on", JUndefined>>, <<"off", JUndefined>>, <<"identify", JUndefined>>,
     <<"brightness", JObject([brightness |-> JNumber(60)])>>,
     <<"hue", JObject([hue |-> JString("200")])>>,
     <<"saturation", JObject([saturation |-> JNull])>>,
     <<"color/temperature", JObject([ct |-> JNumber(100)])>>,
     <<"color", JObject([color |-> JString("red")])>>,
     <<"color/rgb", RedBody>>,
     <<"state", JObject([on |-> JBoolean(TRUE), brightness |-> JNumber(60),
                         color |-> JString("red")])>>,
     <<"state", JUndefined>>,
     <<"effects", JObject([effectName |-> JString("Flames")])>>,
     <<"panels/colors", PanelBody(<<RedPanel>>)>>,
     <<"panels/solid", RedBody>>,
     <<"streaming/solid", RedBody>>,
     <<"streaming/panels", PanelBody(<<RedPanel>>)>>}
OtherBodies ==
    {<<"brightness", JUndefined>>,
     <<"color", JObject([color |-> JString("no colour")])>>,
     <<"color/rgb", JObject([r |-> JNumber(255)])>>,
     <<"state", JObject([color |-> JString("no colour")])>>,
     <<"effects", JObject([effectName |-> JString("")])>>,
     <<"panels/colors", PanelBody(<<>>)>>,
     <<"streaming/panels", JObject([panels |-> JString("all")])>>,
     <<"streaming/solid", JUndefined>>,
     <<"panels/colors", PanelBody(<<RedPanel, JNull>>)>>,
     <<"streaming/panels", PanelBody(<<JNull>>)>>}
RestInputs ==
    {<<req[1], "k", req[2]>> : req \in TakenBodies \cup OtherBodies}
    \cup {<<"on", "", JUndefined>>, <<"panels/solid", "", RedBody>>,
          <<"off", "nobody", JUndefined>>, <<"effects", "nobody", JUndefined>>}

\* one device is registered at a time: the calls are those of its client
NextRest ==
    \/ devices = <<>> /\ RegisterCall("10.0.0.1", "tok", "k")
    \/ \E req \in RestInputs : RestRoute(1, req[1], req[2], req[3])
    \/ \E p \in Procs : EnsureStaticModeResume(p)
    \/ \E p \in Procs : GetLightPanelIdsResume(p)
    \/ \E p \in Procs : SetPanelColorsResume(p)
    \/ \E p \in Procs : StateWriteResume(p)
    \/ \E p \in Procs : SetEffectResume(p)
    \/ \E p \in Procs : OneRequestResume(p)
    \/ \E p \in Procs : StreamSolidColorResume(p)
    \/ \E p \in Procs : InitializeStreamingResume(p)
    \/ \E p \in Procs : GetPanelLayoutResume(p)
    \/ \E p \in Procs : ExtControlResume(p)
    \/ \E p \in Procs : SendResume(p)
    \/ \E p \in Procs : RequestFails(p)

SpecRest == Init /\ [][NextRest]_vars

(***************************************************************************)
(* Claims about the Static-Mode Reconciler                                 *)
(***************************************************************************)
\* the writes among the requests a call has issued, in the order of issue
WritesOf(c) == SelectSeq(c.log, LAMBDA r : r.method = "PUT")

IsStateWrite(req) == req.method = "PUT" /\ req.path = "/state"

\* a static display write that gives every panel it names the colour rgb
\* the device's reading of animData: the numbers between the blanks; a token that
\* is not a run of digits reads as NaN
DigitOf(ch) == IF \E d \in 0..9 : ToString(d) = ch
               THEN CHOOSE d \in 0..9 : ToString(d) = ch
               ELSE NaN
RECURSIVE ReadNumbers(_, _, _)
ReadNumbers(text, token, numbers) ==
    IF text = ""
    THEN IF token = <<>> THEN numbers ELSE Append(numbers, token[1])
    ELSE IF Head(text) = " "
         THEN ReadNumbers(Tail(text), <<>>,
                          IF token = <<>> THEN numbers ELSE Append(numbers, token[1]))
         ELSE LET d == DigitOf(Head(text))
                  n == IF token = <<>> THEN 0 ELSE token[1]
              IN  ReadNumbers(Tail(text),
                              <<IF IsNaN(d) \/ IsNaN(n) THEN NaN ELSE 10 * n + d>>,
                              numbers)
AnimNumbers(req) == ReadNumbers(req.body.write.animData, <<>>, <<>>)

IsStaticWriteOf(req, rgb) ==
    /\ req.method = "PUT" /\ req.path = "/effects"
    /\ DOMAIN req.body = {"write"}
    /\ req.body.write.command = "display"
    /\ req.body.write.animType = "static"
    /\ LET data == AnimNumbers(req)
       IN  /\ Len(data) = 1 + 7 * data[1]
           /\ \A k \in 0..(data[1] - 1) :
                 <<data[4 + 7 * k], data[5 + 7 * k], data[6 + 7 * k]>> = <<rgb.r, rgb.g, rgb.b>>

\* a reconciled call past the read that opens it
HasRead(c) == c.op \in ReconciledOps /\ c.pc \in {"getLightPanelIds", "setPanelColors", "stateWrite"}

\* C1: in a call of setBrightness, setHue, setSaturation, setColorTemperature or
\* setState, when the device info read at the start shows an effect other than
\* "*Solid*" and "*Static*", the writes issued are a static write that gives the
\* panels hsbToRgb of the hue, saturation and brightness read, and only after it
\* the state write; when it shows "*Solid*" or "*Static*", the state write is
\* the only write issued.
C1_StaticWriteBeforeStateWrite ==
    \A p \in Procs :
        HasRead(calls[p]) =>
            LET c == calls[p]
                w == WritesOf(c)
            IN  IF c.info.effect \in {"*Solid*", "*Static*"}
                THEN Len(w) = 1 /\ IsStateWrite(w[1]) /\ c.pc = "stateWrite"
                ELSE /\ Len(w) <= 2
                     /\ Len(w) >= 1 => IsStaticWriteOf(w[1], hsbToRgb(HsbOf(c.info)))
                     /\ Len(w) = 2 => IsStateWrite(w[2])
                     /\ c.pc = "stateWrite" <=> Len(w) = 2
                     /\ c.pc = "setPanelColors" <=> Len(w) = 1

\* setBrightness(40) on a device showing an animated effect at HSB(200, 80, 60):
\* the static write RGB(31, 112, 153) to both light panels has gone out and the
\* brightness write after it; and a call that read "*Static*" has issued its
\* state write
C1_Witness ==
    /\ \E p \in Procs :
          /\ calls[p].op = "setBrightness" /\ calls[p].pc = "stateWrite"
          /\ calls[p].info.effect = "Flames"
          /\ HsbOf(calls[p].info) = [hue |-> 200, saturation |-> 80, brightness |-> 60]
          /\ Len(WritesOf(calls[p])) = 2
          /\ AnimNumbers(WritesOf(calls[p])[1])[1] = 2
          /\ IsStaticWriteOf(WritesOf(calls[p])[1], [r |-> 31, g |-> 112, b |-> 153])
          /\ WritesOf(calls[p])[2] = Req("PUT", "/state", [brightness |-> [value |-> 40]])
    /\ \E p \in Procs :
          /\ calls[p].op \in ReconciledOps /\ calls[p].pc = "stateWrite"
          /\ calls[p].info.effect = "*Static*"

\* the state write of a reconciled call is answered in this step
StateWriteLands(p) ==
    /\ calls[p].op \in ReconciledOps
    /\ calls[p].pc = "stateWrite"
    /\ calls'[p].pc # "stateWrite"
    /\ calls'[p].pc # "failed"

\* C23: the reconciler's check-then-act is not atomic: when another operation has
\* selected an animated effect between a call's state read and its state write,
\* the write reaches the device all the same, the animated effect stays selected,
\* and the call ends there: it reads nothing again and writes nothing more.
C23_WriteLandsOnAnimatedEffect ==
    [][\A p \in Procs :
          (StateWriteLands(p) /\ ~IsStaticEffect(hw.effect)) =>
              /\ hw' = DeviceApply(hw, StateWrite(calls[p].op, calls[p].arg))
              /\ hw'.effect = hw.effect
              /\ calls'[p] = Settled(calls[p], "done")]_vars

\* the interleaving: the call read a static effect and went straight to its state
\* write; a setEffect that overlapped it has selected an animated effect since
C23_Witness ==
    \E p, q \in Procs :
        /\ p # q
        /\ calls[p].op \in ReconciledOps
        /\ calls[p].pc = "stateWrite"
        /\ IsStaticEffect(calls[p].info.effect)
        /\ Len(calls[p].log) = 2
        /\ calls[q].op = "setEffect"
        /\ calls[q].pc = "done"
        /\ ~IsStaticEffect(hw.effect)

(***************************************************************************)
(* Claims about the streaming channel                                      *)
(***************************************************************************)
OpenSockets == {i \in 1..Len(sockets) : sockets[i] = "open"}

\* C2: whatever initializeStreaming, streamColors, streamSolidColor and
\* stopStreaming calls have run on a connection, and however they overlapped,
\* at most one of the UDP sockets it created is open.
C2_AtMostOneOpenSocket == Cardinality(OpenSockets) <= 1

\* the version the device's model calls for
VersionFor(model) == IF model = "NL22" THEN "v1" ELSE "v2"

\* C14: initializeStreaming selects V1 exactly when the device reports model
\* "NL22" and V2 otherwise; the extControl version it writes, and the frame
\* layout and the destination port (60221 for V1, 60222 for V2) of every
\* datagram sent once a socket is there, agree with that selection.
C14_ProtocolFollowsModel ==
    /\ cl.streamingSocket # 0 => (cl.protocolVersion = 1 <=> hw.model = "NL22")
    /\ cl.protocolVersion \in {1, 2}
    /\ \A p \in Procs :
          /\ calls[p].pc = "extControl" =>
                /\ DOMAIN Pending(calls[p]).body = {"write"}
                /\ Pending(calls[p]).body.write.animType = "extControl"
                /\ Pending(calls[p]).body.write.extControlVersion = VersionFor(hw.model)
          /\ calls[p].pc = "send" =>
                LET n == Len(calls[p].panels)
                    d == Pending(calls[p])
                IN  /\ d.method = "UDP"
                    /\ IF VersionFor(hw.model) = "v1"
                       THEN d.path = 60221 /\ Len(d.body) = 1 + 7 * n /\ d.body[1] = n
                       ELSE /\ d.path = 60222 /\ Len(d.body) = 2 + 8 * n
                            /\ <<d.body[1], d.body[2]>> = <<0, n>>

\* a V1 frame for panel 7 in red is on its way to port 60221 of an NL22, and
\* the socket in use is not the first this connection opened
C14_Witness ==
    \E p \in Procs :
        /\ hw.model = "NL22"
        /\ calls[p].pc = "send"
        /\ Pending(calls[p]) = [method |-> "UDP", path |-> 60221, body |-> <<1, 7, 1, 255, 0, 0, 0, 1>>]
        /\ cl.streamingSocket > 1

\* a step of stopStreaming, seen by the record it leaves
StopStep == fx' # fx /\ fx'.fn = "stopStreaming"

\* nothing but the socket the connection holds is touched
OnlyCurrentSocketClosed ==
    /\ hw' = hw /\ calls' = calls
    /\ IF cl.streamingSocket = 0
       THEN cl' = cl /\ sockets' = sockets
       ELSE /\ cl' = [cl EXCEPT !.streamingSocket = 0]
            /\ sockets' = [sockets EXCEPT ![cl.streamingSocket] = "closed"]
            /\ sockets[cl.streamingSocket] = "open"

\* C15: stopStreaming on a connection without a channel closes nothing, changes
\* no connection state and issues no request; with an open channel it closes
\* the channel and leaves the connection with no open channel.
C15_StopLeavesNoOpenChannel ==
    [][StopStep => (OnlyCurrentSocketClosed /\ OpenSockets' = {})]_vars

\* what holds of it: it closes the socket the connection holds and no other
C15_StopClosesTheSocketHeld ==
    [][StopStep => OnlyCurrentSocketClosed]_vars

\* an error response is among what the call has seen
HasError(c) == \E i \in 1..Len(c.log) : c.log[i].method = "ERR"

\* streamColors(panelColors) is called in this step
StreamColorsCalled(p) ==
    /\ ~InFlight(p)
    /\ calls'[p] # calls[p]
    /\ calls'[p].op = "streamColors"

\* the call has started initializeStreaming: its info fetch is out
InitializationStarted(c) == c.pc = "initializeStreaming" /\ c.log = <<GetInfo>>

\* the call has sent one datagram for its mapping and no HTTP request; a mapping
\* the codec cannot encode (outside its precondition) ends the call with nothing sent
OneDatagramNoRequest(c, version) ==
    IF c.pc = "send"
    THEN /\ c.log = <<Datagram(version, c.arg.panelColors)>>
         /\ ~PacketThrows(version, c.arg.panelColors)
    ELSE /\ c.pc = "failed" /\ c.log = <<>>
         /\ \E m \in StreamInputs : PacketThrows(version, m)

\* the rest of the initialization, step by step: layout fetch, extControl write,
\* channel open, and then the one datagram
InitializationRuns(p) ==
    /\ (calls[p].pc = "initializeStreaming" /\ calls'[p].pc = "getPanelLayout") =>
            calls'[p].log = <<GetInfo, GetInfo>>
    /\ (calls[p].pc = "getPanelLayout" /\ calls'[p].pc = "extControl") =>
            calls'[p].log = <<GetInfo, GetInfo, ExtControlWrite(cl.protocolVersion)>>
    /\ (calls[p].pc = "extControl" /\ calls'[p].pc # "extControl" /\ ~HasError(calls'[p])) =>
            /\ Len(sockets') = Len(sockets) + 1
            /\ cl'.streamingSocket = Len(sockets')
            /\ sockets'[cl'.streamingSocket] = "open"
            /\ IF PacketThrows(cl.protocolVersion, calls[p].arg.panelColors)
               THEN calls'[p].pc = "failed"
               ELSE /\ calls'[p].pc = "send"
                    /\ calls'[p].log = Append(calls[p].log,
                            Datagram(cl.protocolVersion, calls[p].arg.panelColors))

\* C26: streamColors initializes streaming (info fetch, layout fetch, extControl
\* write, channel open) if and only if the connection has no open channel when it
\* is called; with a channel open it issues no HTTP request and sends exactly one
\* datagram; after stopStreaming the next streamColors initializes again.
C26_InitializesIffNoOpenChannel ==
    [][/\ \A p \in Procs :
             /\ StreamColorsCalled(p) =>
                   IF OpenSockets = {}
                   THEN InitializationStarted(calls'[p])
                   ELSE OneDatagramNoRequest(calls'[p], cl.protocolVersion)
             /\ calls[p].op = "streamColors" => InitializationRuns(p)
       /\ StopStep => cl'.streamingSocket = 0
      ]_vars

\* what holds of it: the test is on the socket the connection holds, which
\* is open whenever there is one
C26_InitializesIffNoSocketHeld ==
    [][/\ \A p \in Procs :
             /\ StreamColorsCalled(p) =>
                   IF cl.streamingSocket = 0
                   THEN InitializationStarted(calls'[p])
                   ELSE /\ sockets[cl.streamingSocket] = "open"
                        /\ OneDatagramNoRequest(calls'[p], cl.protocolVersion)
             /\ calls[p].op = "streamColors" => InitializationRuns(p)
       /\ StopStep => cl'.streamingSocket = 0
      ]_vars

\* stopStreaming has closed the socket held, and a streamColors called since is
\* initializing again
C26_Witness ==
    \E p \in Procs :
        /\ fx.fn = "stopStreaming" /\ fx.arg # <<0>>
        /\ cl.streamingSocket = 0
        /\ calls[p].op = "streamColors"
        /\ calls[p].pc = "extControl"
        /\ Len(sockets) = 1

\* streamSolidColor(color) is called in this step
StreamSolidColorCalled(p) ==
    /\ ~InFlight(p)
    /\ calls'[p] # calls[p]
    /\ calls'[p].op = "streamSolidColor"

\* every panel id of a layout, controller panels included, in layout order
FullIds(layout) == [i \in 1..Len(layout) |-> layout[i].panelId]

\* the mapping that gives every id of the set the colour
SolidMapping(ids, color) == [i \in 1..Len(ids) |-> [panelId |-> ids[i], color |-> color]]

\* the call is in streamColors with the mapping: sending, or initializing first
StreamsMapping(c, client, mapping, before) ==
    /\ c.panels = mapping
    /\ IF c.pc = "send"
       THEN c.log = Append(before, Datagram(client.protocolVersion, mapping))
       ELSE c.pc = "initializeStreaming" /\ c.log = Append(before, GetInfo)

InInitialization(c) == c.pc \in {"initializeStreaming", "getPanelLayout", "extControl"}

DomainOf(k) ==
    CASE k = "hue" -> [lo |-> 0, hi |-> 360]
      [] k = "ct" -> [lo |-> 1200, hi |-> 6500]
      [] OTHER -> [lo |-> 0, hi |-> 100]

\* the argument field a payload field comes from
ArgumentOf(k) == IF k = "sat" THEN "saturation" ELSE k

\* a reconciled call whose state write has gone out
StateWriteIssued(c) == c.op \in ReconciledOps /\ c.pc = "stateWrite"

\* the value v written for input x is x clamped to the domain d
IsClamped(d, x, v) ==
    /\ v \in d.lo..d.hi
    /\ (~IsNaN(x) /\ x \in d.lo..d.hi) => v = x
    /\ (~IsNaN(x) /\ x < d.lo) => v = d.lo
    /\ (~IsNaN(x) /\ x > d.hi) => v = d.hi

\* C11: for every numeric input, the value setBrightness and setSaturation
\* write lies in 0..100, setHue in 0..360, setColorTemperature in 1200..6500,
\* and it is the input when that is in range, the lower bound when below, the
\* upper bound when above; the same for every numeric field setState writes.
C11_EveryNumberClamped ==
    \A p \in Procs :
        StateWriteIssued(calls[p]) =>
            LET body == Pending(calls[p]).body
            IN  \A k \in DOMAIN body \ {"on"} :
                    IsClamped(DomainOf(k), calls[p].arg[ArgumentOf(k)], body[k].value)

\* the same for every input but NaN
C11_EveryNumberButNaNClamped ==
    \A p \in Procs :
        StateWriteIssued(calls[p]) =>
            LET body == Pending(calls[p]).body
            IN  \A k \in DOMAIN body \ {"on"} :
                    ~IsNaN(calls[p].arg[ArgumentOf(k)]) =>
                        IsClamped(DomainOf(k), calls[p].arg[ArgumentOf(k)], body[k].value)

\* setHue(400) has written 360
C11_Witness ==
    \E p \in Procs :
        /\ StateWriteIssued(calls[p])
        /\ calls[p].op = "setHue" /\ calls[p].arg.hue = 400
        /\ Pending(calls[p]).body = [hue |-> [value |-> 360]]

\* C12: the payload of the one PUT /state of setState has exactly the fields
\* the caller supplied, saturation under the name sat, each as {value: x}, and
\* no field that was not supplied.
C12_OnlySuppliedFieldsWritten ==
    \A p \in Procs :
        (StateWriteIssued(calls[p]) /\ calls[p].op = "setState") =>
            LET c == calls[p]
                body == Pending(c).body
            IN  /\ Len(SelectSeq(c.log, IsStateWrite)) = 1
                /\ IsStateWrite(Pending(c))
                /\ DOMAIN body = {IF f = "saturation" THEN "sat" ELSE f : f \in DOMAIN c.arg}
                /\ \A k \in DOMAIN body : DOMAIN body[k] = {"value"}
                /\ "on" \in DOMAIN body => body["on"].value = c.arg["on"]

\* setState({on, saturation}) has written {on, sat}
C12_Witness ==
    \E p \in Procs :
        /\ StateWriteIssued(calls[p]) /\ calls[p].op = "setState"
        /\ DOMAIN calls[p].arg = {"on", "saturation"}
        /\ DOMAIN Pending(calls[p]).body = {"on", "sat"}
        /\ Pending(calls[p]).body["sat"] = [value |-> 0]

(***************************************************************************)
(* Claims about setColor                                                   *)
(***************************************************************************)
\* panel ids of a layout whose shape type is not the controller's
EmittingIds(layout) == {layout[i].panelId : i \in {j \in 1..Len(layout) : layout[j].shapeType # 12}}

\* the panel ids a static write names
AddressedIds(req) ==
    LET data == AnimNumbers(req)
    IN  {data[2 + 7 * k] : k \in 0..(data[1] - 1)}

\* a setColor call whose static write has gone out
ColorWriteIssued(c) == c.op = "setColor" /\ c.pc = "setPanelColors"

\* one static write with the given colour, at most the layout fetch before it,
\* no state write and nothing read of the selected effect
OneColorWrite(c) ==
    /\ Len(WritesOf(c)) = 1
    /\ IsStaticWriteOf(Pending(c), c.arg.color)
    /\ Cardinality(AddressedIds(Pending(c))) = AnimNumbers(Pending(c))[1]
    /\ c.log \in {<<Pending(c)>>, <<GetInfo, Pending(c)>>}
    /\ c.info = NoSnapshot

SingleRequestOf(c) ==
    CASE c.op = "turnOn" -> Req("PUT", "/state", [on |-> [value |-> TRUE]])
      [] c.op = "turnOff" -> Req("PUT", "/state", [on |-> [value |-> FALSE]])
      [] c.op = "setEffect" -> Req("PUT", "/effects", [select |-> c.arg.name])
      [] c.op = "identify" -> Req("PUT", "/identify", [f \in {} |-> 0])
      [] c.op = "listEffects" -> Req("GET", "/effects/effectsList", <<>>)
      [] OTHER -> Req("GET", "/effects/select", <<>>)

EntryNumbers(m) ==
    [i \in 1..(7 * Len(m)) |->
        LET e == m[((i - 1) \div 7) + 1]
            k == (i - 1) % 7
        IN  CASE k = 0 -> e.panelId
              [] k = 1 -> 1
              [] k = 2 -> e.color.r
              [] k = 3 -> e.color.g
              [] k = 4 -> e.color.b
              [] k = 5 -> 0
              [] OTHER -> 1]

\* numbers in decimal, one blank between them
RECURSIVE JoinBlank(_)
JoinBlank(numbers) ==
    IF numbers = <<>> THEN ""
    ELSE IF Len(numbers) = 1 THEN ToString(numbers[1])
         ELSE ToString(Head(numbers)) \o " " \o JoinBlank(Tail(numbers))

\* C28: setPanelColors(mapping) issues one PUT /effects display write of type
\* static whose animData is the decimal text "N" followed, for each of the N
\* entries in order, by " id 1 r g b 0 1"; the panels addressed are exactly the
\* keys of the mapping, controller panels and panels outside the layout included.
C28_OneStaticWriteForTheMapping ==
    \A p \in Procs :
        LET c == calls[p]
            m == c.arg.panelColors
        IN  (InFlight(p) /\ c.op = "setPanelColors") =>
              /\ c.log = <<Pending(c)>>
              /\ Pending(c).method = "PUT" /\ Pending(c).path = "/effects"
              /\ DOMAIN Pending(c).body = {"write"}
              /\ Pending(c).body.write.command = "display"
              /\ Pending(c).body.write.animType = "static"
              /\ Pending(c).body.write.loop = FALSE
              /\ Pending(c).body.write.palette = <<>>
              /\ Pending(c).body.write.animData = JoinBlank(<<Len(m)>> \o EntryNumbers(m))
              /\ AnimNumbers(Pending(c)) = <<Len(m)>> \o EntryNumbers(m)
              /\ AddressedIds(Pending(c)) = {m[i].panelId : i \in 1..Len(m)}

\* the write for panel 300 in blue and the controller panel 1 in red, in that order
C28_Witness ==
    \E p \in Procs :
        /\ calls[p].op = "setPanelColors"
        /\ calls[p].pc = "setPanelColors"
        /\ hw.model = "NL42"
        /\ Pending(calls[p]).body.write.animData = "2 300 1 0 0 255 0 1 1 1 255 0 0 0 1"
        /\ 1 \notin EmittingIds(hw.layout)

(***************************************************************************)
(* Claims about the light-panel-ID cache                                   *)
(***************************************************************************)
Cache == cl.cachedLightPanelIds

\* the call comes to setAllPanelsColor in this step: setColor is called, or
\* ensureStaticMode has read an animated effect
EntersAllPanels(p) ==
    \/ ~InFlight(p) /\ InFlight(p)' /\ calls'[p].op = "setColor"
    \/ calls[p].pc = "ensureStaticMode" /\ calls'[p].pc \in {"getLightPanelIds", "setPanelColors"}

\* the call's layout fetch is answered in this step
LayoutFetchAnswered(p) ==
    calls[p].pc = "getLightPanelIds" /\ calls'[p].pc = "setPanelColors"

\* C25 (as stated): the emitting-panel set is fetched only by the first
\* whole-device colour write; once one computation has succeeded every later
\* whole-device write uses that same set and issues no layout fetch; a failed
\* fetch leaves the cache unset.
C25_FetchedOnceAndKept ==
    [][/\ \A p \in Procs :
             (EntersAllPanels(p) /\ calls'[p].pc = "getLightPanelIds") =>
                /\ ~Cache.cached
                /\ \A q \in Procs \ {p} : calls[q].pc # "getLightPanelIds"
       /\ Cache.cached => Cache' = Cache
       /\ \A p \in Procs :
             (calls[p].pc = "getLightPanelIds" /\ calls'[p].pc = "failed") => Cache' = Cache
      ]_vars

\* C25 (amended): a whole-device colour write fetches the layout exactly when the
\* cache is unset as it starts, and otherwise addresses the cached set without a
\* fetch, whatever the device's layout is by then; every answered fetch stores the
\* emitting panels of the layout it read and addresses them; nothing else changes
\* the cache, a failed fetch in particular.
C25_FetchedWhileUnset ==
    [][/\ \A p \in Procs :
             EntersAllPanels(p) =>
                IF Cache.cached
                THEN /\ calls'[p].pc = "setPanelColors"
                     /\ GetInfo \notin Elems(SubSeq(calls'[p].log, 2, Len(calls'[p].log)))
                     /\ AddressedIds(Pending(calls'[p])) = Elems(Cache.ids)
                     /\ Cache' = Cache
                ELSE /\ calls'[p].pc = "getLightPanelIds"
                     /\ Pending(calls'[p]) = GetInfo
       /\ \A p \in Procs :
             LayoutFetchAnswered(p) =>
                /\ Cache' = [cached |-> TRUE, ids |-> LightPanelIds(hw.layout)]
                /\ AddressedIds(Pending(calls'[p])) = EmittingIds(hw.layout)
       /\ Cache' # Cache => \E p \in Procs : LayoutFetchAnswered(p)
      ]_vars

\* a reconciler freeze that found the cache set: it went from the state read
\* straight to a static write for the cached panels, on a device that has grown
C25_Witness ==
    \E p \in Procs :
        /\ calls[p].op \in ReconciledOps
        /\ calls[p].pc = "setPanelColors"
        /\ Len(calls[p].log) = 2
        /\ Cache.cached
        /\ AddressedIds(Pending(calls[p])) = Elems(Cache.ids)
        /\ Elems(Cache.ids) # EmittingIds(hw.layout)

(***************************************************************************)
(* Claims about the Streaming Codec                                        *)
(***************************************************************************)
FrameBuilt(fn) == fx.fn = fn /\ ~fx.threw

\* C16: for a Map of N entries the V1 frame has 1 + 7N bytes and the V2 frame
\* 2 + 8N bytes, and the count field read back from the frame (one byte in V1,
\* two bytes big-endian in V2) is N.
C16_FrameLengthAndCount ==
    /\ FrameBuilt("buildV1Packet") =>
          /\ Len(fx.out) = 1 + 7 * Len(fx.arg)
          /\ fx.out[1] = Len(fx.arg)
    /\ FrameBuilt("buildV2Packet") =>
          /\ Len(fx.out) = 2 + 8 * Len(fx.arg)
          /\ 256 * fx.out[1] + fx.out[2] = Len(fx.arg)
    /\ (fx.fn \in {"buildV1Packet", "buildV2Packet"} /\ ~fx.threw) =>
          \A i \in 1..Len(fx.out) : fx.out[i] \in 0..255

\* a V2 frame of two entries: 18 bytes, count bytes 0 and 2
C16_Witness ==
    /\ FrameBuilt("buildV2Packet")
    /\ Len(fx.arg) = 2
    /\ Len(fx.out) = 18
    /\ <<fx.out[1], fx.out[2]>> = <<0, 2>>

\* C17: in input order, entry k of a V1 frame is the 7 bytes id, 1, red,
\* green, blue, 0, 1 from offset 1 + 7k, and entry k of a V2 frame the 8 bytes
\* id high, id low, red, green, blue, 0, 0, 1 from offset 2 + 8k.
C17_FrameLayout ==
    /\ FrameBuilt("buildV1Packet") =>
          \A k \in 0..(Len(fx.arg) - 1) :
              LET e == fx.arg[k + 1]
              IN  SubSeq(fx.out, 2 + 7 * k, 8 + 7 * k) =
                     <<e.panelId, 1, e.color.r, e.color.g, e.color.b, 0, 1>>
    /\ FrameBuilt("buildV2Packet") =>
          \A k \in 0..(Len(fx.arg) - 1) :
              LET e == fx.arg[k + 1]
              IN  /\ SubSeq(fx.out, 5 + 8 * k, 10 + 8 * k) =
                        <<e.color.r, e.color.g, e.color.b, 0, 0, 1>>
                  /\ 256 * fx.out[3 + 8 * k] + fx.out[4 + 8 * k] = e.panelId
                  /\ fx.out[4 + 8 * k] \in 0..255

\* a V2 frame whose second entry is panel 300 in red: bytes 1, 44, 255, 0, 0, 0, 0, 1
C17_Witness ==
    /\ FrameBuilt("buildV2Packet")
    /\ Len(fx.arg) = 2
    /\ fx.arg[2] = [panelId |-> 300, color |-> Red]
    /\ SubSeq(fx.out, 11, 18) = <<1, 44, 255, 0, 0, 0, 0, 1>>

(***************************************************************************)
(* Claims about the Color Model                                            *)
(***************************************************************************)
Abs(x) == IF x < 0 THEN 0 - x ELSE x

\* every channel of b is within tolerance of the channel of a
Within(a, b, tolerance) ==
    /\ Abs(a.r - b.r) <= tolerance
    /\ Abs(a.g - b.g) <= tolerance
    /\ Abs(a.b - b.b) <= tolerance

\* C18: for every RGB triple x with channels in 0..255, every channel of
\* hsbToRgb(rgbToHsb(x)) is within 1 of the channel of x.
C18_RoundTripWithinOne == fx.fn = "roundTrip" => Within(fx.arg, fx.out, 1)

\* C18 as the code has it: within 3
C18_RoundTripWithinThree == fx.fn = "roundTrip" => Within(fx.arg, fx.out, 3)

\* RGB(0, 108, 254) comes back as RGB(0, 111, 255)
C18_Witness ==
    /\ fx.fn = "roundTrip"
    /\ fx.arg = [r |-> 0, g |-> 108, b |-> 254]
    /\ fx.out = [r |-> 0, g |-> 111, b |-> 255]

RgbInRange == fx.fn = "hsbToRgb" => (fx.out.r \in 0..255 /\ fx.out.g \in 0..255 /\ fx.out.b \in 0..255)

HsbInRange(topHue) ==
    fx.fn = "rgbToHsb" =>
        /\ fx.out.hue \in 0..topHue
        /\ fx.out.saturation \in 0..100
        /\ fx.out.brightness \in 0..100
        /\ (fx.arg.r = fx.arg.g /\ fx.arg.g = fx.arg.b) => fx.out.hue = 0
        /\ fx.arg = [r |-> 0, g |-> 0, b |-> 0] => fx.out.saturation = 0

\* C19: for hue in 0..360 and saturation, brightness in 0..100 every channel
\* of hsbToRgb is an integer in 0..255; for channels in 0..255 rgbToHsb gives
\* a hue in 0..359 and saturation and brightness in 0..100, hue 0 when the
\* channels are equal and saturation 0 for black.
C19_OutputRanges == RgbInRange /\ HsbInRange(359)

\* the same, with the hue 360 let in
C19_OutputRangesHueUpTo360 == RgbInRange /\ HsbInRange(360)

(***************************************************************************)
(* Claims about failures                                                   *)
(***************************************************************************)
\* C20: when the request an operation awaits fails, the operation is rejected
\* with the error of that request; the request is not sent again and no later
\* request of the operation is sent.
C20_FailureEndsTheOperation ==
    [][\A p \in Procs :
          (InFlight(p) /\ HasError(calls'[p])) =>
              /\ calls'[p].pc = "failed"
              /\ calls'[p].op = calls[p].op
              /\ calls'[p].log = <<Pending(calls[p]), ErrorResponse>>]_vars

\* setBrightness was rejected with the error of its freeze write: the
\* brightness write never went out
C20_Witness ==
    \E p \in Procs :
        /\ calls[p].op = "setBrightness" /\ calls[p].pc = "failed"
        /\ Len(calls[p].log) = 2
        /\ calls[p].log[1].method = "PUT" /\ calls[p].log[1].path = "/effects"
        /\ HasError(calls[p])

(***************************************************************************)
(* Claims about adding a device                                            *)
(***************************************************************************)
\* the add request in slot a gets its answer in this step
AddAnswered(a) == adds[a].pc = "fetch" /\ adds'[a].pc # "fetch"

\* every entry the registry held is still there, at its place and with its object
\* as it was
EntriesKept ==
    /\ Len(devices') >= Len(devices)
    /\ \A i \in 1..Len(devices) :
          /\ devices'[i] = devices[i]
          /\ heap'[devices[i].obj] = heap[devices[i].obj]

\* what the step that answers an add request does to the registry
AddStepRegistersOnce ==
    \A a \in Adders :
        AddAnswered(a) =>
            LET key == Lower(adds'[a].finalAlias)
            IN  /\ EntriesKept
                /\ adds'[a].pc \in {"unreachable", "conflict", "registered"}
                /\ adds'[a].pc = "unreachable" => devices' = devices /\ heap' = heap
                /\ adds'[a].pc = "conflict" =>
                       /\ devices' = devices /\ heap' = heap
                       /\ MapHas(devices, key)
                /\ adds'[a].pc = "registered" =>
                       /\ ~MapHas(devices, key)
                       /\ devices' = Append(devices, [key |-> key, obj |-> nextObj])
                       /\ heap'[nextObj].alias = adds'[a].finalAlias
                       /\ heap'[nextObj].name # Undefined
                       /\ heap'[nextObj].model # Undefined

\* of the answered add requests with one final alias, whatever its case, at most
\* one was registered, and the entry the others were refused for is there
OneRegisteredPerAlias ==
    /\ \A a, b \in Adders :
          (/\ a # b
           /\ adds[a].pc = "registered" /\ adds[b].pc = "registered") =>
              Lower(adds[a].finalAlias) # Lower(adds[b].finalAlias)
    /\ \A a \in Adders :
          adds[a].pc \in {"conflict", "registered"} =>
              MapHas(devices, Lower(adds[a].finalAlias))
    /\ Len(devices) = nextObj - 1

\* C30: an add request registers its device only in the step that follows a
\* successful info fetch and only under a key the registry does not hold, leaving
\* every existing entry as it was; of the add requests whose final aliases are
\* equal ignoring case one is registered and the others are answered "already
\* registered"; a failed fetch leaves the registry unchanged.
C30_AddNeverReplaces == []OneRegisteredPerAlias /\ [][AddStepRegistersOnce]_vars

\* two add requests waited for the device together, the first with the alias "k",
\* the second with no alias for a device named "K"; the second was answered first
\* and registered, the first was then answered "already registered"
C30_Witness ==
    /\ adds[1].pc = "conflict" /\ adds[1].finalAlias = "k"
    /\ adds[2].pc = "registered" /\ adds[2].alias = "" /\ adds[2].finalAlias = "K"
    /\ Len(devices) = 1 /\ devices[1].key = "k"
    /\ heap[devices[1].obj].alias = "K"

(***************************************************************************)
(* Claims about the REST routes                                            *)
(***************************************************************************)
Answered == {p \in DOMAIN rest : rest[p].status # 0}

\* a response other than 202 belongs to a request that called no command
Refused(p) == p = 0

\* every request that resolved its device and passed the checks of its route was
\* answered 202, every other request 400 with no command called
AcceptedOrRefused ==
    \A p \in Answered :
        IF rest[p].resolved /\ rest[p].passed
        THEN rest[p].status = 202 /\ p \in Procs /\ calls[p].op # ""
        ELSE rest[p].status = 400 /\ Refused(p)

\* the same, but that a request which resolved and passed may have been answered
\* 500, the handler having thrown before it called a command
AcceptedOrRefusedOrThrown ==
    \A p \in Answered :
        IF rest[p].resolved /\ rest[p].passed
        THEN \/ rest[p].status = 202 /\ p \in Procs /\ calls[p].op # ""
             \/ rest[p].status = 500 /\ Refused(p)
        ELSE rest[p].status = 400 /\ Refused(p)

\* a command enters slot p
Dispatched(p) == ~InFlight(p) /\ calls'[p] # calls[p]

\* the 202 is there in the step that calls the command: the command waits for its
\* first response, or it was rejected before it sent anything, which went to
\* the error log; the device has seen nothing yet
AnsweredAtDispatch ==
    \A p \in Procs :
        Dispatched(p) =>
            /\ rest'[p].status = 202
            /\ IF calls'[p].pc = "failed"
               THEN rest'[p].logged /\ calls'[p].log = <<>>
               ELSE ~rest'[p].logged /\ InFlight(p)' /\ Len(calls'[p].log) = 1
            /\ hw' = hw

\* a request that is refused calls no command
RefusedCallsNothing ==
    rest'[0] # rest[0] =>
        /\ UNCHANGED <<calls, hw, cl, sockets>>
        /\ \A p \in Procs : rest'[p] = rest[p]

\* while a dispatched command runs, its response stays; when it fails, and only
\* then, the error log gets an entry
FailureOnlyLogged ==
    \A p \in Procs :
        InFlight(p) =>
            /\ [rest'[p] EXCEPT !.logged = FALSE] = [rest[p] EXCEPT !.logged = FALSE]
            /\ rest'[p].logged = (rest[p].logged \/ calls'[p].pc = "failed")

\* C21: a request to a fire-and-forget route that resolves its device and passes
\* the checks of the route is answered 202 in the step that calls the command,
\* before any response of the device; every other request is answered 400 and
\* calls no command; a command that fails later leaves the response alone and
\* shows in the error log only.
C21_AcceptedOrRefused ==
    /\ []AcceptedOrRefused
    /\ [][AnsweredAtDispatch /\ RefusedCallsNothing /\ FailureOnlyLogged]_vars

\* the same, but for the requests whose handler throws: a panels array with a
\* null in it passes the checks of its route and is answered neither 202 nor 400
C21_AcceptedOrRefusedOrThrown ==
    /\ []AcceptedOrRefusedOrThrown
    /\ [][AnsweredAtDispatch /\ RefusedCallsNothing /\ FailureOnlyLogged]_vars

\* PUT /device/brightness was answered 202, and the setBrightness it called was
\* rejected afterwards: the error is in the log
C21_Witness ==
    /\ rest[1] = [Answer(TRUE, TRUE, 202) EXCEPT !.logged = TRUE]
    /\ calls[1].op = "setBrightness" /\ calls[1].pc = "failed"
    /\ HasError(calls[1])

\* a request with a null among its panels has been answered with the status of
\* an uncaught exception
C21_NullPanelAnswered == rest[0] = Answer(TRUE, TRUE, 500)

====
